---- MODULE Spec2Model ----
(***************************************************************************)
(* Verification model of the Reportes pipeline (Sntg04/Reportes).          *)
(*                                                                         *)
(*  - Report 2 portfolio classifier                                        *)
(*      (extract_cartera_from_gerencia_and_rango and its helpers),         *)
(*  - Report 3 row generation (generate_report_rows),                      *)
(*  - Report 4 Operativo sheet: the formulas written by                    *)
(*      crear_hoja_operativo, evaluated as the spreadsheet engine          *)
(*      evaluates them.                                                    *)
(*                                                                         *)
(* Texts are sequences of one-character strings, so that substring tests,  *)
(* case conversion, strip() and concatenation are computed, not assumed.   *)
(* Times are seconds since midnight; rewards are hundredths (0.15 = 15).   *)
(***************************************************************************)
EXTENDS Integers, Sequences, FiniteSets, TLC

VARIABLES
    gerencia_text,   \* classifier input: column 6 of the admin export
    rango_text,      \* classifier input: column 10 of the admin export
    cartera,         \* classifier output (admin_df['cartera'])
    pcCartera,       \* "idle" | "input" | "done"
    fuentes,         \* Report 3 inputs for one (asesor, day sheet)
    fila3,           \* the Report 3 row built for that asesor, or NoRow
    operativo,       \* the Operativo row of Report 4 with its formula results
    etapa,           \* "idle" | "fuentes" | "reporte3" | "calidad"
    biometricos,     \* the uploaded biometric file (archivoBiometricos)
    asistencia,      \* the rows of the Asistencia Lideres sheet
    ausentismo,      \* the Ausentismo row of the asesor
    base_file,       \* base_asesores.json on disk
    subida,          \* the upload set of each client's invocation
    respuesta,       \* the response each client received, or NoRespuesta
    temp_files,      \* the files of temp_files/, by name
    reloj,           \* datetime.now(), in seconds
    archivos2,       \* the admin and attendance files uploaded to Report 2
    reporte2,        \* the day sheet Report 2 returned, or NoReporte2
    archivos1,       \* the call files uploaded to Report 1, in upload order
    reporte1,        \* the call report Report 1 returned, or NoReporte1
    entrada,         \* the normaliser called and the text given to it
    devuelto,        \* the text the normaliser returned, or NoSalida
    escritor,        \* the roster update under way: its position, the new
                     \* roster and the backup copy it made
    calidad,         \* per client, the response of Report 4, or NoCalidad
    df_r3,           \* the Report 3 sheet read by Report 4: its column
                     \* names in file order and its rows
    mapeo_columnas,  \* Operativo column -> Report 3 column, or SinMapeo
    libro,           \* the sheets of the Report 4 workbook, or NoLibro
    hoja_team        \* one rollup row of the Team or Gerente sheet with the
                     \* Operativo rows its formula reads, and the count shown

vars == <<gerencia_text, rango_text, cartera, pcCartera,
          fuentes, fila3, operativo, etapa,
          biometricos, asistencia, ausentismo,
          base_file, subida, respuesta, temp_files, reloj,
          archivos2, reporte2, archivos1, reporte1, entrada, devuelto,
          escritor, calidad, df_r3, mapeo_columnas, libro, hoja_team>>

\* the variables of the Report 4 workbook
varsLibro == <<df_r3, mapeo_columnas, libro, hoja_team>>

\* the variables of the normalisers
varsTexto == <<entrada, devuelto>>

\* the variables of the Report 1 handler
varsLlamadas == <<archivos1, reporte1>>

\* the variables of the Report 2 handler
varsAdmin == <<archivos2, reporte2>>

\* call files per upload of Report 1
MaxArchivos == 2

\* seconds the clock runs
MaxReloj == 2

\* the variables of the web handlers (uploads, files on disk, responses)
varsServicio == <<base_file, subida, respuesta, temp_files, reloj>>

\* the variables of the Report 3 / Report 4 pipeline
varsCalidad == <<fuentes, fila3, operativo, etapa,
                 biometricos, asistencia, ausentismo>>

\* the variables of the portfolio classifier
varsCartera == <<gerencia_text, rango_text, cartera, pcCartera>>

(***************************************************************************)
(* Bounds                                                                  *)
(***************************************************************************)
MaxTokens == 3      \* tokens joined into one management text
MaxFilas  == 2      \* rows of an uploaded admin or telephony sheet

(***************************************************************************)
(* Text primitives (Python str operations)                                 *)
(***************************************************************************)
LowerChars == <<"a","b","c","d","e","f","g","h","i","j","k","l","m",
                "n","o","p","q","r","s","t","u","v","w","x","y","z">>
UpperChars == <<"A","B","C","D","E","F","G","H","I","J","K","L","M",
                "N","O","P","Q","R","S","T","U","V","W","X","Y","Z">>

OtherChars == {"0","1","2","3","4","5","6","7","8","9","-","_"," "}

Alphabet ==
    {LowerChars[i] : i \in 1..26} \cup {UpperChars[i] : i \in 1..26}
        \cup OtherChars

UpperOf ==
    [c \in Alphabet |->
        IF \E i \in 1..26 : LowerChars[i] = c
        THEN UpperChars[CHOOSE i \in 1..26 : LowerChars[i] = c]
        ELSE c]

LowerOf ==
    [c \in Alphabet |->
        IF \E i \in 1..26 : UpperChars[i] = c
        THEN LowerChars[CHOOSE i \in 1..26 : UpperChars[i] = c]
        ELSE c]

UpperChar(c) == UpperOf[c]

LowerChar(c) == LowerOf[c]

\* str.upper() / str.lower()
Upper(s) == [i \in 1..Len(s) |-> UpperChar(s[i])]
Lower(s) == [i \in 1..Len(s) |-> LowerChar(s[i])]

\* Python `sub in s`
Contains(s, sub) ==
    \E i \in 0..(Len(s) - Len(sub)) :
        \A j \in 1..Len(sub) : s[i + j] = sub[j]

\* str.startswith
StartsWith(s, pre) ==
    /\ Len(pre) <= Len(s)
    /\ \A j \in 1..Len(pre) : s[j] = pre[j]

\* str.strip(): drop leading and trailing blanks
RECURSIVE LStrip(_)
LStrip(s) == IF s # <<>> /\ Head(s) = " " THEN LStrip(Tail(s)) ELSE s

RECURSIVE RStrip(_)
RStrip(s) ==
    IF s # <<>> /\ s[Len(s)] = " " THEN RStrip(SubSeq(s, 1, Len(s) - 1)) ELSE s

Strip(s) == LStrip(RStrip(s))

(***************************************************************************)
(* Literals of 2_Reporte_Admin_Cobranza.py                                 *)
(***************************************************************************)
T_M1_2     == <<"M","1","-","2">>
T_M12      == <<"M","1","2">>
T_M1_1B    == <<"M","1","-","1","B">>
T_M11B     == <<"M","1","1","B">>
T_M0_1     == <<"M","0","-","1">>
T_PP       == <<"P","P">>
T_M0_1PP   == <<"M","0","-","1","P","P">>
T_M1_1     == <<"M","1","-","1">>
T_A        == <<"A">>
T_BEATRIZ  == <<"B","E","A","T","R","I","Z">>
T_NANCY    == <<"N","A","N","C","Y">>
T_M1_1A    == <<"M","1","-","1","A">>
T_M11A     == <<"M","1","1","A">>
T_M0       == <<"M","0">>
T_M0PP     == <<"M","0","P","P">>
T_VP       == <<"V","P">>
T_M0VP     == <<"M","0","V","P">>
T_FRS      == <<"F","R","S">>
T_PN       == <<"P","N">>
T_BT       == <<"B","T">>
T_GERENCIA == <<"G","E","R","E","N","C","I","A">>
T_m0       == <<"m","0">>
T_m11a     == <<"m","1","1","a">>
T_Dash     == <<"-">>

\* labels returned by the classifier
L_M0_1_PP   == <<"M","0","-","1"," ","P","P">>
L_M1_1A_PN  == <<"M","1","-","1","A","-","P","N">>
L_M1_1A_BT  == <<"M","1","-","1","A","-","B","T">>
L_M1_1A_FRS == <<"M","1","-","1","A","-","F","R","S">>
L_M0_FRS    == <<"M","0","-","F","R","S">>
L_M0_PP     == <<"M","0","-","P","P">>
L_M0_VP     == <<"M","0","-","V","P">>
L_M0_PN     == <<"M","0","-","P","N">>
L_M0_BT     == <<"M","0","-","B","T">>

\* RANGOS_FRS_M11A
RANGOS_FRS_M11A ==
    { <<"R","M","1","-","1","A">>, <<"R"," ","M","1","-","1","A">>,
      <<"R","M","1","1","A">>,     <<"R"," ","M","1","1","A">>,
      <<"R","M","1","-","1">>,     <<"R"," ","M","1","-","1">>,
      <<"R","M","1","1">>,         <<"R"," ","M","1","1">> }

\* detectar_aplicativo returns None when no tag is present
NoAplicativo == <<>>

(***************************************************************************)
(* Portfolio classifier                                                    *)
(***************************************************************************)
\* detectar_aplicativo(gerencia_text)
detectar_aplicativo(g) ==
    LET gerencia_upper == Upper(g) IN
    IF Contains(gerencia_upper, T_FRS) THEN T_FRS
    ELSE IF Contains(gerencia_upper, T_PN) THEN T_PN
    ELSE IF Contains(gerencia_upper, T_BT) THEN T_BT
    ELSE NoAplicativo

\* variant: the FRS branch does not look at the range text
validar_frs_sin_rango(aplicativo, rango_upper, cartera_base) ==
    IF aplicativo = T_FRS
    THEN L_M1_1A_FRS
    ELSE IF aplicativo # NoAplicativo
    THEN IF StartsWith(cartera_base, T_M0)
         THEN T_M0 \o T_Dash \o aplicativo
         ELSE cartera_base \o T_Dash \o aplicativo
    ELSE cartera_base

\* variant: the tag is appended to every base label, M0 bases included
validar_frs_siempre_anexa(aplicativo, rango_upper, cartera_base) ==
    IF aplicativo = T_FRS
    THEN IF \E rango \in RANGOS_FRS_M11A : Contains(rango_upper, rango)
         THEN L_M1_1A_FRS
         ELSE L_M0_FRS
    ELSE IF aplicativo # NoAplicativo
    THEN cartera_base \o T_Dash \o aplicativo
    ELSE cartera_base

\* _validar_frs_con_rango(aplicativo, rango_upper, cartera_base)
validar_frs_con_rango(aplicativo, rango_upper, cartera_base) ==
    IF aplicativo = T_FRS
    THEN IF \E rango \in RANGOS_FRS_M11A : Contains(rango_upper, rango)
         THEN L_M1_1A_FRS
         ELSE L_M0_FRS
    ELSE IF aplicativo # NoAplicativo
    THEN IF StartsWith(cartera_base, T_M0)
         THEN T_M0 \o T_Dash \o aplicativo
         ELSE cartera_base \o T_Dash \o aplicativo
    ELSE cartera_base

\* the seven rule conditions, as the if-statements of the function write them
Regla1(gu, gl) ==
    \/ Contains(gu, T_M1_2) \/ Contains(gu, T_M12)
    \/ Contains(gl, Lower(T_M1_2)) \/ Contains(gl, Lower(T_M12))

Regla2(gu, gl) ==
    \/ Contains(gu, T_M1_1B) \/ Contains(gu, T_M11B)
    \/ Contains(gl, Lower(T_M1_1B)) \/ Contains(gl, Lower(T_M11B))

Regla3(gu, gl) ==
    \/ (Contains(gu, T_M0_1) /\ Contains(gu, T_PP))
    \/ Contains(gu, T_M0_1PP)
    \/ (Contains(gl, Lower(T_M0_1)) /\ Contains(gl, Lower(T_PP)))
    \/ Contains(gl, Lower(T_M0_1PP))

Regla4(gu) ==
    /\ Contains(gu, T_M1_1) /\ Contains(gu, T_A)
    /\ Contains(gu, T_BEATRIZ) /\ Contains(gu, T_NANCY)

Regla5(gu, gl) ==
    \/ Contains(gu, T_M1_1A) \/ Contains(gu, T_M11A)
    \/ Contains(gl, Lower(T_M1_1A)) \/ Contains(gl, Lower(T_M11A))

\* rules 6 and 7 test 'm0' against the raw text, not against gerencia_lower
Regla6(gu, gl, g) ==
    \/ (Contains(gu, T_M0) /\ Contains(gu, T_PP))
    \/ Contains(gu, T_M0PP)
    \/ (Contains(g, T_m0) /\ Contains(gl, Lower(T_PP)))
    \/ Contains(gl, Lower(T_M0PP))

Regla7(gu, gl, g) ==
    \/ (Contains(gu, T_M0) /\ Contains(gu, T_VP))
    \/ Contains(gu, T_M0VP)
    \/ (Contains(g, T_m0) /\ Contains(gl, Lower(T_VP)))
    \/ Contains(gl, Lower(T_M0VP))

\* variant: rule 5 is tested before the named exception of rule 4
extract_cartera_regla5_antes_de_4(g, r) ==
    IF Strip(g) = <<>> THEN <<>>
    ELSE
    LET gerencia_upper == Strip(Upper(g))
        rango_upper    == Strip(Upper(r))
        gerencia_lower == Strip(Lower(g))
        aplicativo     == detectar_aplicativo(g)
    IN  IF Regla1(gerencia_upper, gerencia_lower) THEN T_M1_2
        ELSE IF Regla2(gerencia_upper, gerencia_lower) THEN T_M1_1B
        ELSE IF Regla3(gerencia_upper, gerencia_lower) THEN L_M0_1_PP
        ELSE IF Regla5(gerencia_upper, gerencia_lower)
             THEN validar_frs_con_rango(aplicativo, rango_upper, T_M1_1A)
        ELSE IF Regla4(gerencia_upper) THEN L_M1_1A_PN
        ELSE IF Regla6(gerencia_upper, gerencia_lower, g)
             THEN validar_frs_con_rango(aplicativo, rango_upper, L_M0_PP)
        ELSE IF Regla7(gerencia_upper, gerencia_lower, g)
             THEN validar_frs_con_rango(aplicativo, rango_upper, L_M0_VP)
        ELSE Strip(g)

\* variant: the fall-through returns the text as received, blanks included
extract_cartera_sin_strip(g, r) ==
    IF Strip(g) = <<>> THEN <<>>
    ELSE
    LET gerencia_upper == Strip(Upper(g))
        rango_upper    == Strip(Upper(r))
        gerencia_lower == Strip(Lower(g))
        aplicativo     == detectar_aplicativo(g)
    IN  IF Regla1(gerencia_upper, gerencia_lower) THEN T_M1_2
        ELSE IF Regla2(gerencia_upper, gerencia_lower) THEN T_M1_1B
        ELSE IF Regla3(gerencia_upper, gerencia_lower) THEN L_M0_1_PP
        ELSE IF Regla4(gerencia_upper) THEN L_M1_1A_PN
        ELSE IF Regla5(gerencia_upper, gerencia_lower)
             THEN validar_frs_con_rango(aplicativo, rango_upper, T_M1_1A)
        ELSE IF Regla6(gerencia_upper, gerencia_lower, g)
             THEN validar_frs_con_rango(aplicativo, rango_upper, L_M0_PP)
        ELSE IF Regla7(gerencia_upper, gerencia_lower, g)
             THEN validar_frs_con_rango(aplicativo, rango_upper, L_M0_VP)
        ELSE g

\* variant: rule 7 is tested before rule 6
extract_cartera_regla7_antes_de_6(g, r) ==
    IF Strip(g) = <<>> THEN <<>>
    ELSE
    LET gerencia_upper == Strip(Upper(g))
        rango_upper    == Strip(Upper(r))
        gerencia_lower == Strip(Lower(g))
        aplicativo     == detectar_aplicativo(g)
    IN  IF Regla1(gerencia_upper, gerencia_lower) THEN T_M1_2
        ELSE IF Regla2(gerencia_upper, gerencia_lower) THEN T_M1_1B
        ELSE IF Regla3(gerencia_upper, gerencia_lower) THEN L_M0_1_PP
        ELSE IF Regla4(gerencia_upper) THEN L_M1_1A_PN
        ELSE IF Regla5(gerencia_upper, gerencia_lower)
             THEN validar_frs_con_rango(aplicativo, rango_upper, T_M1_1A)
        ELSE IF Regla7(gerencia_upper, gerencia_lower, g)
             THEN validar_frs_con_rango(aplicativo, rango_upper, L_M0_VP)
        ELSE IF Regla6(gerencia_upper, gerencia_lower, g)
             THEN validar_frs_con_rango(aplicativo, rango_upper, L_M0_PP)
        ELSE Strip(g)

\* extract_cartera_from_gerencia_and_rango(gerencia_text, rango_text)
extract_cartera_from_gerencia_and_rango(g, r) ==
    IF Strip(g) = <<>> THEN <<>>
    ELSE
    LET gerencia_upper == Strip(Upper(g))
        rango_upper    == Strip(Upper(r))
        gerencia_lower == Strip(Lower(g))
        aplicativo     == detectar_aplicativo(g)
    IN  IF Regla1(gerencia_upper, gerencia_lower) THEN T_M1_2
        ELSE IF Regla2(gerencia_upper, gerencia_lower) THEN T_M1_1B
        ELSE IF Regla3(gerencia_upper, gerencia_lower) THEN L_M0_1_PP
        ELSE IF Regla4(gerencia_upper) THEN L_M1_1A_PN
        ELSE IF Regla5(gerencia_upper, gerencia_lower)
             THEN validar_frs_con_rango(aplicativo, rango_upper, T_M1_1A)
        ELSE IF Regla6(gerencia_upper, gerencia_lower, g)
             THEN validar_frs_con_rango(aplicativo, rango_upper, L_M0_PP)
        ELSE IF Regla7(gerencia_upper, gerencia_lower, g)
             THEN validar_frs_con_rango(aplicativo, rango_upper, L_M0_VP)
        ELSE Strip(g)

(***************************************************************************)
(* Classifier inputs: management texts are built from tokens joined by one *)
(* blank; range texts come from a fixed sample.                            *)
(***************************************************************************)
Tokens ==
    { T_GERENCIA, T_M1_2, T_M1_1B, T_M0_1, T_PP, T_M1_1, T_BEATRIZ, T_NANCY,
      T_M1_1A, T_M0, T_VP, T_FRS, T_PN, T_BT, T_m11a }

Rangos ==
    { <<"R","M","1","-","1","A">>, <<"r"," ","m","1","1">>,
      <<"9","1","_","1","2","0">> }

\* number of blank-separated words of a text
NumTokens(s) ==
    Cardinality({ i \in 1..Len(s) :
                    s[i] # " " /\ (i = 1 \/ s[i - 1] = " ") })

\* one cell of column 6 is typed token by token
AppendToken(tok) ==
    /\ pcCartera = "input"
    /\ NumTokens(gerencia_text) < MaxTokens
    /\ gerencia_text' =
          IF Strip(gerencia_text) = <<>>
          THEN gerencia_text \o tok
          ELSE gerencia_text \o <<" ">> \o tok
    /\ UNCHANGED <<varsLibro, rango_text, cartera, pcCartera, varsCalidad, varsServicio,
                   varsAdmin, varsLlamadas, varsTexto, escritor, calidad>>

\* admin_df.apply(lambda row: extract_cartera_from_gerencia_and_rango(...))
Classify ==
    /\ pcCartera = "input"
    /\ cartera' = extract_cartera_from_gerencia_and_rango(gerencia_text, rango_text)
    /\ pcCartera' = "done"
    /\ UNCHANGED <<varsLibro, gerencia_text, rango_text, varsCalidad, varsServicio,
                   varsAdmin, varsLlamadas, varsTexto, escritor, calidad>>

\* the next row of the admin export
SiguienteFila ==
    /\ pcCartera = "done"
    /\ \E r \in Rangos : rango_text' = r
    /\ gerencia_text' = <<>>
    /\ cartera' = <<>>
    /\ pcCartera' = "input"
    /\ UNCHANGED <<varsLibro, varsCalidad, varsServicio, varsAdmin, varsLlamadas, varsTexto, escritor, calidad>>

\* blanks an exported cell may carry before and after its text
Blancos == { <<>>, <<" ">> }

\* a cell of column 6 that carries blanks around its text is classified as
\* it is read
ClassifyRelleno(izq, der) ==
    /\ pcCartera = "input"
    /\ izq \o der # <<>>
    /\ gerencia_text' = izq \o gerencia_text \o der
    /\ cartera' = extract_cartera_from_gerencia_and_rango(gerencia_text',
                                                          rango_text)
    /\ pcCartera' = "done"
    /\ UNCHANGED <<varsLibro, rango_text, varsCalidad, varsServicio, varsAdmin,
                   varsLlamadas, varsTexto, escritor, calidad>>

(***************************************************************************)
(* Values of the tabular sources                                           *)
(***************************************************************************)
\* blank cell / NaN / '' of a numeric or time field
Vacio == -1

\* blank Fecha cell
NoFecha == [d |-> 0, m |-> 0, y |-> 0]

HMS(h, m, s) == h * 3600 + m * 60 + s

\* days of 2025 before the first of month m
DiasAntes2025 == <<0, 31, 59, 90, 120, 151, 181, 212, 243, 273, 304, 334>>

\* Excel DATEVALUE of a DD/MM/YYYY text of 2025: serial day number
\* (1 January 2025 is serial 45658)
DATEVALUE(f) == 45657 + DiasAntes2025[f.m] + f.d

\* Excel WEEKDAY(serial), return type 1: 1 = Sunday ... 7 = Saturday
WEEKDAY(serial) == ((serial - 1) % 7) + 1

\* Excel DAY(cell): a blank cell is serial 0, whose day is 0
DAY(f) == IF f = NoFecha THEN 0 ELSE f.d

\* variant: the 90% share is truncated instead of rounded
ROUNDDOWN09(x) == (9 * x) \div 10

\* Excel ROUND(x * 0.9, 0) for a non-negative integer x: halves round up
ROUND09(x) == (9 * x + 5) \div 10

\* Excel ISNUMBER(SEARCH(sub, text)): SEARCH ignores letter case
SEARCH(sub, text) == Contains(Upper(text), Upper(sub))

(***************************************************************************)
(* ConfigReporte and the literals of the Operativo formulas                *)
(***************************************************************************)
FILTRO_ASIGNACION_MIN     == 5
VALOR_INDICADOR_CUMPLE    == 15
VALOR_INDICADOR_TOQUES    == 20
M0_TOQUES_MIN             == 120
OTRAS_CARTERAS_TOQUES_MIN == 160
ASIGNACION_MIN_GESTION    == 45
LLAMADAS_MIN              == 150
HORA_INGRESO_NORMAL       == HMS(8, 0, 0)
HORA_INGRESO_PAGO         == HMS(7, 30, 0)
HORA_ULTIMO_SABADO        == HMS(12, 20, 0)
HORA_ULTIMO_PAGO          == HMS(18, 50, 0)
HORA_ULTIMO_NORMAL        == HMS(17, 20, 0)
DIAS_PAGO                 == {30, 31, 1, 2, 15, 16, 17}

(***************************************************************************)
(* Report 3: generate_report_rows for one asesor of one day sheet          *)
(***************************************************************************)
\* admin_map.get(asesor_id, {}) when the asesor is not in the admin sheet
NoAdmin == [presente |-> FALSE, Logueo |-> Vacio, CARTERA |-> <<>>,
            ASIGNACION |-> Vacio, TOCADAS |-> Vacio, TOQUES |-> Vacio,
            ULTIMO |-> Vacio]

\* no Report 3 row for the asesor
NoRow == [presente |-> FALSE, Fecha |-> NoFecha, Cedula |-> Vacio,
          ID |-> Vacio, Logueo |-> Vacio,
          Mora |-> <<>>, Asignacion |-> Vacio, Gestionados |-> Vacio,
          TotalToques |-> Vacio, UltimoToque |-> Vacio,
          LlamadasMicrosip |-> Vacio, LlamadasVOIP |-> Vacio,
          TotalLlamadas |-> Vacio]

\* safe_get_value(row, key, default) for a numeric field
safe_get_value(row, valor, default) ==
    IF ~row.presente THEN default ELSE valor

\* safe_float_conversion(value): blank becomes 0
safe_float_conversion(value) == IF value = Vacio THEN 0 ELSE value

\* every MORA_CORRECTIONS entry is its key with the blank replaced by a dash,
\* which is also the general rule applied to the other values
RECURSIVE ReplaceBlanks(_)
ReplaceBlanks(s) ==
    IF s = <<>> THEN <<>>
    ELSE <<IF Head(s) = " " THEN "-" ELSE Head(s)>> \o ReplaceBlanks(Tail(s))

\* variant: blanks are kept as they are
normalizar_valor_mora_sin_reemplazo(valor_mora) ==
    IF valor_mora = <<>> THEN valor_mora
    ELSE Strip(valor_mora)

\* normalizar_valor_mora(valor_mora)
normalizar_valor_mora(valor_mora) ==
    IF valor_mora = <<>> THEN valor_mora
    ELSE ReplaceBlanks(Strip(valor_mora))

(***************************************************************************)
(* Planta sheet: the goal tables, and the Meta cell of an Operativo row    *)
(***************************************************************************)
\* labels with a dash in place of the blank
L_M0_1_PP_guion == <<"M","0","-","1","-","P","P">>

\* datos_dia_pago: label and goal in tenths of a percent
datos_dia_pago ==
    { <<L_M0_PP, 370>>, <<L_M0_VP, 620>>, <<T_M1_1A, 90>>, <<T_M1_1B, 25>>,
      <<L_M0_PN, 520>>, <<L_M0_FRS, 520>>, <<L_M0_BT, 520>>,
      <<L_M0_1_PP_guion, 100>>, <<L_M1_1A_FRS, 80>>, <<L_M1_1A_BT, 80>>,
      <<L_M1_1A_PN, 80>> }

\* datos_dia_normal: label and goal in tenths of a percent
datos_dia_normal ==
    { <<L_M0_PP, 360>>, <<L_M0_VP, 580>>, <<T_M1_1A, 90>>, <<T_M1_1B, 25>>,
      <<L_M0_PN, 520>>, <<L_M0_FRS, 520>>, <<L_M0_BT, 520>>,
      <<L_M0_1_PP_guion, 100>>, <<L_M1_1A_FRS, 80>>, <<L_M1_1A_BT, 80>>,
      <<L_M1_1A_PN, 80>> }

\* VLOOKUP(valor, tabla, 2, FALSE): the goals found for the label (#N/A is
\* the empty set)
VLOOKUP(valor, tabla) == { par[2] : par \in { p \in tabla : p[1] = valor } }

\* the Meta cell of a row whose Mora, Capital Asignado and Tipo Jornada are
\* filled: "calculada" for M1-2 (ROUND(500000/capital, 4)), the goal of the
\* table of the schedule type otherwise, "#N/A" when the label is no key
formula_meta(mora, tipo_jornada) ==
    IF mora = T_M1_2 THEN "calculada"
    ELSE LET tabla == IF tipo_jornada = "Pago" THEN datos_dia_pago
                      ELSE datos_dia_normal
         IN  IF VLOOKUP(mora, tabla) = {} THEN "#N/A" ELSE "tabla"

\* the row generate_report_rows appends for the asesor
generate_report_rows(f) ==
    LET admin_row == f.admin
        llamadas_microsip == safe_float_conversion(f.llamadas)
    IN  [presente         |-> TRUE,
         Fecha            |-> f.fecha,
         Cedula           |-> f.cedula,
         ID               |-> f.id,
         Logueo           |-> safe_get_value(admin_row, admin_row.Logueo, Vacio),
         Mora             |-> normalizar_valor_mora(
                                 safe_get_value(admin_row, admin_row.CARTERA, <<>>)),
         Asignacion       |-> safe_get_value(admin_row, admin_row.ASIGNACION, 0),
         Gestionados      |-> safe_get_value(admin_row, admin_row.TOCADAS, 0),
         TotalToques      |-> safe_get_value(admin_row, admin_row.TOQUES, 0),
         UltimoToque      |-> safe_get_value(admin_row, admin_row.ULTIMO, Vacio),
         LlamadasMicrosip |-> llamadas_microsip,
         LlamadasVOIP     |-> 0,
         TotalLlamadas    |-> llamadas_microsip]

\* variant: the rows without Logueo stay in the sheet
SinFiltroLogueo(row) == row

\* procesar_reporteria_cobranza: rows without Logueo are removed from the sheet
FiltroLogueo(row) == IF row.Logueo = Vacio THEN NoRow ELSE row

(***************************************************************************)
(* Report 4: the Operativo sheet                                           *)
(***************************************************************************)
\* generar_reporte_calidad keeps the rows with Asignacion > FILTRO_ASIGNACION_MIN
FiltroAsignacion(row) ==
    IF row.presente /\ row.Asignacion # Vacio
                    /\ row.Asignacion > FILTRO_ASIGNACION_MIN
    THEN row ELSE NoRow

\* Tipo Jornada formula
TipoJornada(fecha) == IF DAY(fecha) \in DIAS_PAGO THEN "Pago" ELSE "Normal"

\* variant: the login limits are exclusive
IndLogueoEstricto(logueo, tipo) ==
    IF logueo # Vacio /\ tipo # ""
    THEN IF tipo = "Pago"
         THEN IF logueo < HORA_INGRESO_PAGO THEN VALOR_INDICADOR_CUMPLE ELSE 0
         ELSE IF tipo = "Normal"
              THEN IF logueo < HORA_INGRESO_NORMAL
                   THEN VALOR_INDICADOR_CUMPLE ELSE 0
              ELSE 0
    ELSE 0

\* Ind Logueo formula
IndLogueo(logueo, tipo) ==
    IF logueo # Vacio /\ tipo # ""
    THEN IF tipo = "Pago"
         THEN IF logueo <= HORA_INGRESO_PAGO THEN VALOR_INDICADOR_CUMPLE ELSE 0
         ELSE IF tipo = "Normal"
              THEN IF logueo <= HORA_INGRESO_NORMAL
                   THEN VALOR_INDICADOR_CUMPLE ELSE 0
              ELSE 0
    ELSE 0

\* variant: Saturday is taken to be weekday 6
IndUltimoSabado6(fecha, ultimo, tipo) ==
    IF fecha # NoFecha /\ ultimo # Vacio /\ tipo # ""
    THEN IF WEEKDAY(DATEVALUE(fecha)) = 6
         THEN IF ultimo >= HORA_ULTIMO_SABADO THEN VALOR_INDICADOR_CUMPLE ELSE 0
         ELSE IF tipo = "Pago"
              THEN IF ultimo >= HORA_ULTIMO_PAGO
                   THEN VALOR_INDICADOR_CUMPLE ELSE 0
              ELSE IF tipo = "Normal"
                   THEN IF ultimo >= HORA_ULTIMO_NORMAL
                        THEN VALOR_INDICADOR_CUMPLE ELSE 0
                   ELSE 0
    ELSE 0

\* Ind Ultimo formula
IndUltimo(fecha, ultimo, tipo) ==
    IF fecha # NoFecha /\ ultimo # Vacio /\ tipo # ""
    THEN IF WEEKDAY(DATEVALUE(fecha)) = 7
         THEN IF ultimo >= HORA_ULTIMO_SABADO THEN VALOR_INDICADOR_CUMPLE ELSE 0
         ELSE IF tipo = "Pago"
              THEN IF ultimo >= HORA_ULTIMO_PAGO
                   THEN VALOR_INDICADOR_CUMPLE ELSE 0
              ELSE IF tipo = "Normal"
                   THEN IF ultimo >= HORA_ULTIMO_NORMAL
                        THEN VALOR_INDICADOR_CUMPLE ELSE 0
                   ELSE 0
    ELSE 0

\* variant: without the check for blanks; a cell holding "" is a text, and a
\* text compares greater than every number
IndGesMedioSinValidar(asignacion, gestionados) ==
    IF asignacion # Vacio /\ asignacion < ASIGNACION_MIN_GESTION
    THEN IF gestionados = Vacio \/ gestionados >= ROUND09(asignacion)
         THEN VALOR_INDICADOR_CUMPLE ELSE 0
    ELSE IF gestionados = Vacio \/ gestionados >= ASIGNACION_MIN_GESTION
         THEN VALOR_INDICADOR_CUMPLE ELSE 0

\* Ind Ges Medio formula
IndGesMedio(asignacion, gestionados) ==
    IF asignacion # Vacio /\ gestionados # Vacio
    THEN IF asignacion < ASIGNACION_MIN_GESTION
         THEN IF gestionados >= ROUND09(asignacion)
              THEN VALOR_INDICADOR_CUMPLE ELSE 0
         ELSE IF gestionados >= ASIGNACION_MIN_GESTION
              THEN VALOR_INDICADOR_CUMPLE ELSE 0
    ELSE 0

\* variant: every portfolio is held to the 160 threshold
IndicadorToquesSinM0(mora, toques) ==
    IF mora # <<>> /\ toques # Vacio
    THEN IF toques >= OTRAS_CARTERAS_TOQUES_MIN
         THEN VALOR_INDICADOR_TOQUES ELSE 0
    ELSE 0

\* Indicador Toques formula
IndicadorToques(mora, toques) ==
    IF mora # <<>> /\ toques # Vacio
    THEN IF SEARCH(T_M0, mora)
         THEN IF toques >= M0_TOQUES_MIN THEN VALOR_INDICADOR_TOQUES ELSE 0
         ELSE IF toques >= OTRAS_CARTERAS_TOQUES_MIN
              THEN VALOR_INDICADOR_TOQUES ELSE 0
    ELSE 0

\* Ind Llamadas formula
IndLlamadas(total_llamadas) ==
    IF total_llamadas # Vacio
    THEN IF total_llamadas >= LLAMADAS_MIN THEN VALOR_INDICADOR_TOQUES ELSE 0
    ELSE 0

\* Ind Pausa: the fixed value written in every data row
IndPausa == VALOR_INDICADOR_CUMPLE

\* variant: the range stops at Indicador Toques
RangoSinPausa(op) ==
    <<op.IndLogueo, op.IndUltimo, op.IndGesMedio,
      op.IndLlamadas, op.IndicadorToques>>

\* the cells Ind Logueo .. Ind Pausa of one row, in column order
RangoIndicadores(op) ==
    <<op.IndLogueo, op.IndUltimo, op.IndGesMedio,
      op.IndLlamadas, op.IndicadorToques, op.IndPausa>>

\* variant: counts the cells that are not 0.15
COUNTIFNOT15(celdas) ==
    Cardinality({ i \in 1..Len(celdas) : celdas[i] # VALOR_INDICADOR_CUMPLE })

\* Total Infracciones formula: COUNTIF(Ind Logueo:Ind Pausa, 0)
COUNTIF0(celdas) == Cardinality({ i \in 1..Len(celdas) : celdas[i] = 0 })

\* Total Operativo formula: SUM(Ind Logueo:Ind Pausa)
RECURSIVE SUM(_)
SUM(celdas) == IF celdas = <<>> THEN 0 ELSE Head(celdas) + SUM(Tail(celdas))

\* crear_hoja_operativo: the data row (the placeholder row of blanks when
\* Report 3 gave no rows) and the value of every formula written into it
crear_hoja_operativo(row) ==
    LET tipo == TipoJornada(row.Fecha)
        ind  == [IndLogueo       |-> IndLogueo(row.Logueo, tipo),
                 IndUltimo       |-> IndUltimo(row.Fecha, row.UltimoToque, tipo),
                 IndGesMedio     |-> IndGesMedio(row.Asignacion, row.Gestionados),
                 IndLlamadas     |-> IndLlamadas(row.TotalLlamadas),
                 IndicadorToques |-> IndicadorToques(row.Mora, row.TotalToques),
                 IndPausa        |-> IndPausa]
    IN  [presente          |-> TRUE,
         placeholder       |-> ~row.presente,
         Fecha             |-> row.Fecha,
         TipoJornada       |-> tipo,
         Logueo            |-> row.Logueo,
         Mora              |-> row.Mora,
         Asignacion        |-> row.Asignacion,
         Gestionados       |-> row.Gestionados,
         TotalToques       |-> row.TotalToques,
         UltimoToque       |-> row.UltimoToque,
         TotalLlamadas     |-> row.TotalLlamadas,
         IndLogueo         |-> ind.IndLogueo,
         IndUltimo         |-> ind.IndUltimo,
         IndGesMedio       |-> ind.IndGesMedio,
         IndLlamadas       |-> ind.IndLlamadas,
         IndicadorToques   |-> ind.IndicadorToques,
         IndPausa          |-> ind.IndPausa,
         TotalInfracciones |-> COUNTIF0(RangoIndicadores(ind)),
         TotalOperativo    |-> SUM(RangoIndicadores(ind))]

\* the Operativo sheet before Report 4 has run
NoOperativo == [presente |-> FALSE]

(***************************************************************************)
(* Report 4: the biometric file, Asistencia Lideres and Ausentismo         *)
(***************************************************************************)
\* request.files.get('archivoBiometricos') when no file was uploaded
NoArchivo == [archivo |-> FALSE, filas |-> <<>>]

\* procesar_archivo_biometricos returned None
SinBiometricos == [presente |-> FALSE, filas |-> <<>>]

\* a clock text: 12-hour with AM/PM, 24-hour ("24h"), or the blank text ("")
NoHora == [h |-> 0, m |-> 0, s |-> 0, p |-> ""]

\* the literal "00:00:00"
HoraCero == [h |-> 0, m |-> 0, s |-> 0, p |-> "24h"]

\* convertir_a_ampm(hora_str) of a time of day
convertir_a_ampm(hora) ==
    LET h == hora \div 3600
        m == (hora % 3600) \div 60
        s == hora % 60
    IN  IF h = 0       THEN [h |-> 12,     m |-> m, s |-> s, p |-> "AM"]
        ELSE IF h < 12 THEN [h |-> h,      m |-> m, s |-> s, p |-> "AM"]
        ELSE IF h = 12 THEN [h |-> 12,     m |-> m, s |-> s, p |-> "PM"]
        ELSE                [h |-> h - 12, m |-> m, s |-> s, p |-> "PM"]

\* Excel TIMEVALUE of a clock text that is not blank
TIMEVALUE(t) ==
    IF t.p = "24h" THEN HMS(t.h, t.m, t.s)
    ELSE HMS((t.h % 12) + (IF t.p = "PM" THEN 12 ELSE 0), t.m, t.s)

\* codigo_biometrico / Codigo Aus: CEDULA + DD + MM, the digits as a number
codigo_biometrico(cedula, fecha) == cedula * 10000 + fecha.d * 100 + fecha.m

\* dropna(subset=['FECHA', 'CEDULA', 'HORA'])
RegistroValido(e) == e.CEDULA # Vacio /\ e.FECHA # NoFecha /\ e.HORA # Vacio

\* the ascending sequence of a finite set of numbers (groupby sorts its keys)
RECURSIVE Ordenar(_)
Ordenar(S) ==
    IF S = {} THEN <<>>
    ELSE LET mn == CHOOSE x \in S : \A y \in S : x <= y
         IN  <<mn>> \o Ordenar(S \ {mn})

\* agg 'HORA': ['min', 'max'] over the events of one code
AgruparMinMax(grupo) ==
    LET horas == { grupo[i].HORA : i \in 1..Len(grupo) }
    IN  [ingreso |-> CHOOSE x \in horas : \A y \in horas : x <= y,
         salida  |-> CHOOSE x \in horas : \A y \in horas : x >= y]

\* procesar_archivo_biometricos: one row per code with the first CEDULA, FECHA
\* and CARGO of the code and its min / max HORA in AM/PM form
procesar_archivo_biometricos(bio) ==
    IF ~bio.archivo THEN SinBiometricos
    ELSE LET validos == SelectSeq(bio.filas, RegistroValido)
             codigo(e) == codigo_biometrico(e.CEDULA, e.FECHA)
             codigos == Ordenar({ codigo(validos[i]) : i \in 1..Len(validos) })
             grupo(c) == SelectSeq(validos, LAMBDA e : codigo(e) = c)
             fila(c) ==
                 LET g == grupo(c)
                     horas == AgruparMinMax(g)
                 IN  [codigo  |-> c,
                      cedula  |-> g[1].CEDULA,
                      fecha   |-> g[1].FECHA,
                      cargo   |-> g[1].CARGO,
                      ingreso |-> convertir_a_ampm(horas.ingreso),
                      salida  |-> convertir_a_ampm(horas.salida)]
         IN  IF Len(validos) = 0 THEN SinBiometricos
             ELSE [presente |-> TRUE,
                   filas |-> [i \in 1..Len(codigos) |-> fila(codigos[i])]]

T_SUPERVISOR == <<"S","U","P","E","R","V","I","S","O","R">>
T_GERENTE    == <<"G","E","R","E","N","T","E">>

\* variant: day 17 is missing from the formula of the leaders sheet
TipoJornadaLideresSin17(fecha) ==
    IF \/ DAY(fecha) = 30 \/ DAY(fecha) = 31 \/ DAY(fecha) = 1
       \/ DAY(fecha) = 2  \/ DAY(fecha) = 15 \/ DAY(fecha) = 16
    THEN "Pago" ELSE "Normal"

\* Tipo Jornada formula of the Asistencia Lideres sheet (column B)
TipoJornadaLideres(fecha) ==
    IF \/ DAY(fecha) = 30 \/ DAY(fecha) = 31 \/ DAY(fecha) = 1
       \/ DAY(fecha) = 2  \/ DAY(fecha) = 15 \/ DAY(fecha) = 16
       \/ DAY(fecha) = 17
    THEN "Pago" ELSE "Normal"

\* Novedad Ingreso formula (Asistencia Lideres column J, Ausentismo column N):
\* IFERROR(IF(AND(tipo="Normal",TIMEVALUE(ingreso)>TIME(8,0,0)),"Llego Tarde",
\*   IF(AND(tipo="Pago",TIMEVALUE(ingreso)>TIME(7,30,0)),"Llego Tarde",
\*   "Sin Novedad")),"")
NovedadIngreso(tipo, ingreso) ==
    IF ingreso.p = "" THEN ""
    ELSE IF tipo = "Normal" /\ TIMEVALUE(ingreso) > HMS(8, 0, 0)
         THEN "Llego Tarde"
    ELSE IF tipo = "Pago" /\ TIMEVALUE(ingreso) > HMS(7, 30, 0)
         THEN "Llego Tarde"
    ELSE "Sin Novedad"

\* the row of blanks written when there are no leaders
LiderVacio == [placeholder |-> TRUE, CodigoAus |-> Vacio, TipoJornada |-> "",
               Fecha |-> NoFecha, Cedula |-> Vacio, Cargo |-> <<>>,
               Ingreso |-> NoHora, Salida |-> NoHora, NovedadIngreso |-> ""]

\* crear_hoja_asistencia_lideres: the SUPERVISOR / GERENTE rows of the
\* biometric data, ordered by date and cedula, with their formulas
crear_hoja_asistencia_lideres(datos) ==
    LET lideres == SelectSeq(datos.filas,
                       LAMBDA r : Upper(r.cargo) \in {T_SUPERVISOR, T_GERENTE})
        \* sort key (fecha, cedula): years from 2000 on, cedulas below 100
        clave(r) == (((r.fecha.y - 2000) * 100 + r.fecha.m) * 100
                        + r.fecha.d) * 100 + r.cedula
        claves == Ordenar({ clave(lideres[i]) : i \in 1..Len(lideres) })
        de(k) == lideres[CHOOSE i \in 1..Len(lideres) : clave(lideres[i]) = k]
        registro(r) ==
            LET tipo == TipoJornadaLideres(r.fecha)
            IN  [placeholder    |-> FALSE,
                 CodigoAus      |-> codigo_biometrico(r.cedula, r.fecha),
                 TipoJornada    |-> tipo,
                 Fecha          |-> r.fecha,
                 Cedula         |-> r.cedula,
                 Cargo          |-> r.cargo,
                 Ingreso        |-> r.ingreso,
                 Salida         |-> r.salida,
                 NovedadIngreso |-> NovedadIngreso(tipo, r.ingreso)]
    IN  IF ~datos.presente \/ Len(lideres) = 0 THEN <<LiderVacio>>
        ELSE [i \in 1..Len(claves) |-> registro(de(claves[i]))]

\* the Ausentismo sheet before Report 4 has run
NoAusentismo == [presente |-> FALSE]

\* the value written in Ingreso and Salida when no biometric code matches
SinCoincidencia == HoraCero

\* crear_hoja_ausentismo + sincronizar_codigos_ausentismo for the row of the
\* asesor: Codigo Aus from Cedula and Fecha, Tipo Jornada looked up in
\* Operativo, Ingreso / Salida from the biometric data, Novedad Ingreso
sincronizar_codigos_ausentismo(row, op, datos) ==
    LET conCodigo == row.presente /\ row.Cedula # Vacio /\ row.Fecha # NoFecha
        codigo_aus == IF conCodigo
                      THEN codigo_biometrico(row.Cedula, row.Fecha)
                      ELSE Vacio
        coincide == { i \in 1..Len(datos.filas) :
                          datos.filas[i].codigo = codigo_aus }
        b == datos.filas[CHOOSE i \in coincide : TRUE]
        ingreso == IF ~datos.presente \/ ~conCodigo THEN NoHora
                   ELSE IF coincide # {} THEN b.ingreso ELSE SinCoincidencia
        salida  == IF ~datos.presente \/ ~conCodigo THEN NoHora
                   ELSE IF coincide # {} THEN b.salida ELSE SinCoincidencia
        tipo == IF row.presente /\ row.ID # Vacio /\ row.Fecha # NoFecha
                THEN op.TipoJornada ELSE ""
    IN  [presente       |-> TRUE,
         placeholder    |-> ~row.presente,
         sincronizada   |-> datos.presente,
         coincidencia   |-> datos.presente /\ conCodigo /\ coincide # {},
         CodigoAus      |-> codigo_aus,
         TipoJornada    |-> tipo,
         Ingreso        |-> ingreso,
         Salida         |-> salida,
         NovedadIngreso |-> IF datos.presente
                            THEN NovedadIngreso(tipo, ingreso) ELSE ""]

(***************************************************************************)
(* Report 3: the date and time normalisers                                 *)
(***************************************************************************)
Cifras == <<"0","1","2","3","4","5","6","7","8","9">>

\* str.isdigit() of one character
EsCifra(c) == \E i \in 1..10 : Cifras[i] = c

\* str.isdigit()
isdigit(s) == s # <<>> /\ \A i \in 1..Len(s) : EsCifra(s[i])

\* int(s) of a text of digits
RECURSIVE int(_)
int(s) ==
    IF s = <<>> THEN 0
    ELSE 10 * int(SubSeq(s, 1, Len(s) - 1))
            + (CHOOSE i \in 0..9 : Cifras[i + 1] = s[Len(s)])

\* the decimal text of n, at least `ancho` characters wide (zero padded)
RECURSIVE Decimal(_, _)
Decimal(n, ancho) ==
    IF n < 10 /\ ancho <= 1 THEN <<Cifras[n + 1]>>
    ELSE Decimal(n \div 10, ancho - 1) \o <<Cifras[(n % 10) + 1]>>

\* str.lower() of any character
Minuscula(s) ==
    [i \in 1..Len(s) |-> IF s[i] \in Alphabet THEN LowerChar(s[i]) ELSE s[i]]

\* str.split(sep) for a separator of one character
RECURSIVE split(_, _)
split(s, sep) ==
    IF \A i \in 1..Len(s) : s[i] # sep THEN <<s>>
    ELSE LET i == CHOOSE k \in 1..Len(s) :
                      s[k] = sep /\ \A j \in 1..(k - 1) : s[j] # sep
         IN  <<SubSeq(s, 1, i - 1)>> \o split(SubSeq(s, i + 1, Len(s)), sep)

\* str.count(c)
count(s, c) == Cardinality({ i \in 1..Len(s) : s[i] = c })

\* days of month m of year y
DiasDelMes(m, y) ==
    IF m = 2
    THEN IF (y % 4 = 0 /\ y % 100 # 0) \/ y % 400 = 0 THEN 29 ELSE 28
    ELSE IF m \in {4, 6, 9, 11} THEN 30 ELSE 31

\* a strptime field of at most `largo` digits with a value in lo..hi
Campo(s, largo, lo, hi) ==
    isdigit(s) /\ Len(s) <= largo /\ int(s) >= lo /\ int(s) <= hi

\* no date could be read
SinParse == [ok |-> FALSE, d |-> 0, m |-> 0, y |-> 0]

\* datetime.strptime(s, formato) for the date formats made of %Y, %m and %d
\* around one separator; orden names the fields in their order
strptime_fecha(s, sep, orden) ==
    LET p == split(s, sep)
        iy == IF orden = "Ymd" THEN 1 ELSE 3
        im == IF orden = "mdY" THEN 1 ELSE 2
        id == IF orden = "Ymd" THEN 3 ELSE IF orden = "mdY" THEN 2 ELSE 1
    IN  IF /\ Len(p) = 3
           /\ isdigit(p[iy]) /\ Len(p[iy]) = 4 /\ int(p[iy]) >= 1
           /\ Campo(p[im], 2, 1, 12)
           /\ Campo(p[id], 2, 1, 31)
           /\ int(p[id]) <= DiasDelMes(int(p[im]), int(p[iy]))
        THEN [ok |-> TRUE, d |-> int(p[id]), m |-> int(p[im]), y |-> int(p[iy])]
        ELSE SinParse

\* datetime.strptime(s, '%H:%M:%S') and datetime.strptime(s, '%H:%M')
strptime_hora(s, campos) ==
    LET p == split(s, ":")
    IN  IF /\ Len(p) = campos
           /\ Campo(p[1], 2, 0, 23)
           /\ Campo(p[2], 2, 0, 59)
           /\ (campos = 3 => Campo(p[3], 2, 0, 61))
        THEN [ok |-> TRUE,
              t |-> HMS(int(p[1]), int(p[2]),
                        IF campos = 3 THEN int(p[3]) ELSE 0)]
        ELSE [ok |-> FALSE, t |-> 0]

\* datetime.strptime(s, '%Y-%m-%d %H:%M:%S'), the date of it
strptime_fecha_hora(s) ==
    LET p == SelectSeq(split(s, " "), LAMBDA w : w # <<>>)
    IN  IF Len(p) = 2 /\ strptime_hora(p[2], 3).ok
        THEN strptime_fecha(p[1], "-", "Ymd")
        ELSE SinParse

\* strftime('%d/%m/%Y')
strftime_d_m_Y(f) ==
    Decimal(f.d, 2) \o <<"/">> \o Decimal(f.m, 2) \o <<"/">> \o Decimal(f.y, 4)

\* the formats limpiar_fecha tries, in order
formatos ==
    <<[sep |-> "-", orden |-> "Ymd"],      \* %Y-%m-%d
      [sep |-> " ", orden |-> "Ymd HMS"],  \* %Y-%m-%d %H:%M:%S
      [sep |-> "/", orden |-> "dmY"],      \* %d/%m/%Y
      [sep |-> "-", orden |-> "dmY"],      \* %d-%m-%Y
      [sep |-> "/", orden |-> "Ymd"],      \* %Y/%m/%d
      [sep |-> "/", orden |-> "mdY"],      \* %m/%d/%Y
      [sep |-> ".", orden |-> "dmY"]>>     \* %d.%m.%Y

ProbarFormato(s, k) ==
    IF formatos[k].orden = "Ymd HMS" THEN strptime_fecha_hora(s)
    ELSE strptime_fecha(s, formatos[k].sep, formatos[k].orden)

\* pd.to_datetime as last resort; the sample texts that reach it ("hoy", a
\* misspelt month, a month 13) hold no date it reads
pd_to_datetime(s) == SinParse

\* the text is already shaped DD/MM/YYYY (the numbers are not looked at)
YaEsDDMMYYYY(s) ==
    /\ Len(s) = 10
    /\ count(s, "/") = 2
    /\ LET parts == split(s, "/")
       IN  Len(parts) = 3 /\ Len(parts[1]) <= 2 /\ Len(parts[2]) <= 2
                          /\ Len(parts[3]) = 4

\* limpiar_fecha(fecha_str)
limpiar_fecha(fecha_str) ==
    LET s == Strip(fecha_str)
        ok == { k \in 1..Len(formatos) : ProbarFormato(s, k).ok }
    IN  IF fecha_str = <<>> THEN <<>>
        ELSE IF YaEsDDMMYYYY(s) THEN s
        ELSE IF ok # {}
        THEN strftime_d_m_Y(
                 ProbarFormato(s, CHOOSE k \in ok : \A j \in ok : k <= j))
        ELSE IF pd_to_datetime(s).ok THEN strftime_d_m_Y(pd_to_datetime(s))
        ELSE s

T_de == <<"d","e">>

\* the month names of convertir_fecha_formato, in calendar order
meses ==
    << <<"e","n","e","r","o">>, <<"f","e","b","r","e","r","o">>,
       <<"m","a","r","z","o">>, <<"a","b","r","i","l">>,
       <<"m","a","y","o">>, <<"j","u","n","i","o">>,
       <<"j","u","l","i","o">>, <<"a","g","o","s","t","o">>,
       <<"s","e","p","t","i","e","m","b","r","e">>,
       <<"o","c","t","u","b","r","e">>,
       <<"n","o","v","i","e","m","b","r","e">>,
       <<"d","i","c","i","e","m","b","r","e">> >>

\* the month number used for a name that is not a month
MES_POR_DEFECTO == 1

\* meses.get(mes_texto, '01')
meses_get(mes_texto) ==
    IF \E k \in 1..12 : meses[k] = mes_texto
    THEN CHOOSE k \in 1..12 : meses[k] = mes_texto
    ELSE MES_POR_DEFECTO

\* \w+ : letters, digits and underscore
EsPalabra(w) ==
    w # <<>> /\ \A i \in 1..Len(w) : w[i] \in (Alphabet \ {"-", " "})

\* re.search(r'(\d{1,2})\s+de\s+(\w+)\s+de\s+(\d{4})', s) on the words of s:
\* the word before the first "de" ends with the day, the word after the
\* second begins with the year
BuscarPatron(s) ==
    LET w == SelectSeq(split(s, " "), LAMBDA x : x # <<>>)
        hay(i) == /\ w[i] # <<>> /\ EsCifra(w[i][Len(w[i])])
                  /\ w[i + 1] = T_de
                  /\ EsPalabra(w[i + 2])
                  /\ w[i + 3] = T_de
                  /\ Len(w[i + 4]) >= 4 /\ isdigit(SubSeq(w[i + 4], 1, 4))
        pos == { i \in 1..(Len(w) - 4) : hay(i) }
        i0 == CHOOSE i \in pos : \A j \in pos : i <= j
        n == Len(w[i0])
        dia == IF n >= 2 /\ EsCifra(w[i0][n - 1])
               THEN SubSeq(w[i0], n - 1, n) ELSE SubSeq(w[i0], n, n)
    IN  IF pos = {} THEN [ok |-> FALSE, dia |-> <<>>, mes |-> <<>>, anio |-> <<>>]
        ELSE [ok |-> TRUE, dia |-> dia, mes |-> w[i0 + 2],
              anio |-> SubSeq(w[i0 + 4], 1, 4)]

\* re.match(r'\d{4}-\d{2}-\d{2}', s)
EmpiezaISO(s) ==
    /\ Len(s) >= 10
    /\ \A i \in {1, 2, 3, 4, 6, 7, 9, 10} : EsCifra(s[i])
    /\ s[5] = "-" /\ s[8] = "-"

\* re.match(r'\d{2}-\d{2}-\d{4}', s)
EmpiezaDMY(s) ==
    /\ Len(s) >= 10
    /\ \A i \in {1, 2, 4, 5, 7, 8, 9, 10} : EsCifra(s[i])
    /\ s[3] = "-" /\ s[6] = "-"

EXCEL_EPOCH_THRESHOLD == 40000

\* datetime(1899, 12, 30) + timedelta(days=n): the civil date of Excel day n
FechaDeSerial(n) ==
    LET z == n - 25569 + 719468
        era == z \div 146097
        doe == z - era * 146097
        yoe == (doe - doe \div 1460 + doe \div 36524 - doe \div 146096) \div 365
        doy == doe - (365 * yoe + yoe \div 4 - yoe \div 100)
        mp == (5 * doy + 2) \div 153
        d == doy - (153 * mp + 2) \div 5 + 1
        m == IF mp < 10 THEN mp + 3 ELSE mp - 9
    IN  [d |-> d, m |-> m,
         y |-> yoe + era * 400 + (IF m <= 2 THEN 1 ELSE 0)]

\* str.replace('.0', '')
RECURSIVE QuitarPuntoCero(_)
QuitarPuntoCero(s) ==
    IF Len(s) < 2 THEN s
    ELSE IF s[1] = "." /\ s[2] = "0" THEN QuitarPuntoCero(SubSeq(s, 3, Len(s)))
    ELSE <<s[1]>> \o QuitarPuntoCero(Tail(s))

\* f"{dia}/{mes_numero}/{año}" of a matched long date
convertir_fecha_larga(pat) ==
    Decimal(int(pat.dia), 2) \o <<"/">> \o Decimal(meses_get(pat.mes), 2)
        \o <<"/">> \o pat.anio

\* convertir_fecha_formato(fecha_str)
convertir_fecha_formato(fecha_str) ==
    LET s == Strip(fecha_str)
        pat == BuscarPatron(Minuscula(s))
        iso == strptime_fecha(s, "-", "Ymd")
        dmy == strptime_fecha(s, "-", "dmY")
        corta == QuitarPuntoCero(IF count(s, " ") > 0
                                 THEN split(s, " ")[1] ELSE s)
    IN  IF fecha_str = <<>> THEN <<>>
        ELSE IF pat.ok THEN convertir_fecha_larga(pat)
        ELSE IF EmpiezaISO(s) /\ iso.ok THEN strftime_d_m_Y(iso)
        ELSE IF EmpiezaDMY(s) /\ dmy.ok THEN strftime_d_m_Y(dmy)
        ELSE IF /\ isdigit(corta) /\ Len(corta) > 6
                /\ int(corta) > EXCEL_EPOCH_THRESHOLD
        THEN strftime_d_m_Y(FechaDeSerial(int(corta)))
        ELSE corta

T_AM == <<"A","M">>
T_PM == <<"P","M">>

\* strftime('%I:%M:%S %p').lstrip('0')
strftime_hora_12(t) ==
    LET h == t \div 3600
        h12 == IF h % 12 = 0 THEN 12 ELSE h % 12
    IN  Decimal(h12, 1) \o <<":">> \o Decimal((t % 3600) \div 60, 2)
            \o <<":">> \o Decimal(t % 60, 2) \o <<" ">>
            \o (IF h < 12 THEN T_AM ELSE T_PM)

\* convertir_hora_formato(hora_str); the two formats with %p are never tried
\* on a text that holds AM or PM, and match no other text
convertir_hora_formato(hora_str) ==
    LET s == Strip(hora_str)
        hms == strptime_hora(s, 3)
        hm == strptime_hora(s, 2)
    IN  IF hora_str = <<>> THEN <<>>
        ELSE IF Contains(Minuscula(s), Minuscula(T_AM))
                  \/ Contains(Minuscula(s), Minuscula(T_PM)) THEN s
        ELSE IF hms.ok THEN strftime_hora_12(hms.t)
        ELSE IF hm.ok THEN strftime_hora_12(hm.t)
        ELSE IF pd_to_datetime(s).ok THEN s
        ELSE s

\* no normaliser has run
NoSalida == [funcion |-> "", valor |-> <<>>]

\* one call of a normaliser on the text given
LimpiarFecha ==
    /\ entrada.funcion = "limpiar_fecha"
    /\ devuelto = NoSalida
    /\ devuelto' = [funcion |-> "limpiar_fecha",
                  valor |-> limpiar_fecha(entrada.texto)]
    /\ UNCHANGED <<varsLibro, varsCartera, varsCalidad, varsServicio, varsAdmin,
                   varsLlamadas, entrada, escritor, calidad>>

ConvertirFechaFormato ==
    /\ entrada.funcion = "convertir_fecha_formato"
    /\ devuelto = NoSalida
    /\ devuelto' = [funcion |-> "convertir_fecha_formato",
                  valor |-> convertir_fecha_formato(entrada.texto)]
    /\ UNCHANGED <<varsLibro, varsCartera, varsCalidad, varsServicio, varsAdmin,
                   varsLlamadas, entrada, escritor, calidad>>

ConvertirHoraFormato ==
    /\ entrada.funcion = "convertir_hora_formato"
    /\ devuelto = NoSalida
    /\ devuelto' = [funcion |-> "convertir_hora_formato",
                  valor |-> convertir_hora_formato(entrada.texto)]
    /\ UNCHANGED <<varsLibro, varsCartera, varsCalidad, varsServicio, varsAdmin,
                   varsLlamadas, entrada, escritor, calidad>>

(***************************************************************************)
(* Report 1 as a web handler: the call files aggregated by extension       *)
(***************************************************************************)
\* Report 1 has not answered
NoReporte1 == [estado |-> "pendiente", informe |-> <<>>]

ESTADO_EFECTIVA == "ANSWERED"

\* extensions above this number are not collectors
FUENTE_MAXIMA == 30000

\* pd.concat(dataframes, ignore_index=True)
RECURSIVE concat(_)
concat(dataframes) ==
    IF dataframes = <<>> THEN <<>>
    ELSE Head(dataframes) \o concat(Tail(dataframes))

\* procesar_datos_csv: all files one after another, the rows without a
\* numeric Fuente or without date dropped, the Fuente above 30000 dropped
procesar_datos_csv(files) ==
    SelectSeq(concat(files),
              LAMBDA r : /\ r.Fuente # Vacio
                         /\ r.Fuente <= FUENTE_MAXIMA
                         /\ r.hora # Vacio)

\* strftime('%I:%M:%S %p')
strftime_I_M_S_p(t) ==
    [h |-> IF (t \div 3600) % 12 = 0 THEN 12 ELSE (t \div 3600) % 12,
     m |-> (t % 3600) \div 60,
     s |-> t % 60,
     p |-> IF t \div 3600 < 12 THEN "AM" ELSE "PM"]

\* variant: the date of the last row of the group
agg_last(grupo) == grupo[Len(grupo)].hora

\* agg 'max' of the date column of a group
agg_max(grupo) ==
    CHOOSE t \in { grupo[i].hora : i \in 1..Len(grupo) } :
        \A i \in 1..Len(grupo) : grupo[i].hora <= t

\* generar_reporte_agregado: per day and per Fuente, both ascending, the
\* number of calls, the number of effective calls and the time of the last
ClaveLlamada(r) == r.dia * 100000 + r.Fuente

generar_reporte_agregado(df) ==
    LET claves == Ordenar({ ClaveLlamada(df[i]) : i \in 1..Len(df) })
        grupo(k) == SelectSeq(df, LAMBDA r : ClaveLlamada(r) = k)
    IN  [n \in 1..Len(claves) |->
            LET g == grupo(claves[n])
            IN  [dia     |-> g[1].dia,
                 Fuente  |-> g[1].Fuente,
                 Total   |-> Len(g),
                 Efectivas |->
                     Len(SelectSeq(g, LAMBDA r : r.Estado = ESTADO_EFECTIVA)),
                 Ultima  |-> strftime_I_M_S_p(agg_max(g))]]

\* procesar_llamadas_isabel: at least one file is required
procesar_llamadas_isabel(files) ==
    IF files = <<>>
    THEN [estado |-> "error", informe |-> <<>>]
    ELSE [estado |-> "ok",
          informe |-> generar_reporte_agregado(procesar_datos_csv(files))]

ProcesarLlamadas ==
    /\ reporte1 = NoReporte1
    /\ reporte1' = procesar_llamadas_isabel(archivos1)
    /\ UNCHANGED <<varsLibro, varsCartera, varsCalidad, varsServicio, varsAdmin,
                   varsTexto, escritor, calidad, archivos1>>

(***************************************************************************)
(* Report 2 as a web handler: merge with the attendance file, day sheet    *)
(***************************************************************************)
\* Report 2 has not answered
NoReporte2 == [estado |-> "pendiente", hoja |-> <<>>]

\* convert_time_format(value) of a time of day; blank stays blank
convert_time_format(value) ==
    IF value = Vacio THEN NoHora
    ELSE LET hour == value \div 3600
             hour_12 == IF hour <= 12 THEN hour ELSE hour - 12
         IN  [h |-> IF hour_12 = 0 THEN 12 ELSE hour_12,
              m |-> (value % 3600) \div 60,
              s |-> value % 60,
              p |-> IF hour < 12 THEN "AM" ELSE "PM"]

\* DataFrame.sort_values(by, ascending=False): descending, ties in row order
RECURSIVE sort_values_desc(_, _)
sort_values_desc(df, by) ==
    IF df = <<>> THEN <<>>
    ELSE LET i == CHOOSE k \in 1..Len(df) :
                      /\ \A j \in 1..Len(df) : df[j][by] <= df[k][by]
                      /\ \A j \in 1..(k - 1) : df[j][by] < df[k][by]
         IN  <<df[i]>> \o sort_values_desc(
                 [j \in 1..(Len(df) - 1) |-> IF j < i THEN df[j] ELSE df[j + 1]],
                 by)

\* variant: of the rows of one ID the last is kept
drop_duplicates_keep_last(df) ==
    LET ultimas == { i \in 1..Len(df) :
                        \A j \in (i + 1)..Len(df) : df[j].ID # df[i].ID }
        orden == Ordenar(ultimas)
    IN  [k \in 1..Len(orden) |-> df[orden[k]]]

\* DataFrame.drop_duplicates(subset=['ID'], keep='first')
drop_duplicates(df) ==
    LET primeras == { i \in 1..Len(df) :
                         \A j \in 1..(i - 1) : df[j].ID # df[i].ID }
        orden == Ordenar(primeras)
    IN  [k \in 1..Len(orden) |-> df[orden[k]]]

\* pd.merge(admin_df, asistencia_df, on ID and day, how='left'): every admin
\* row once per attendance row of its ID, or once with a blank connection
RECURSIVE merge_left(_, _)
merge_left(admin_df, asistencia_df) ==
    IF admin_df = <<>> THEN <<>>
    ELSE LET a == Head(admin_df)
             pares == SelectSeq(asistencia_df, LAMBDA x : x.ID = a.ID)
             filas == IF pares = <<>>
                      THEN <<[a EXCEPT !.conexion = Vacio]>>
                      ELSE [k \in 1..Len(pares) |->
                               [a EXCEPT !.conexion = pares[k].conexion]]
         IN  filas \o merge_left(Tail(admin_df), asistencia_df)

\* generar_archivo_excel: the sheet of one day, one row per ID, the row of the
\* highest RECUPERADO
generar_archivo_excel(merged_df) ==
    LET report_sheet_df ==
            [i \in 1..Len(merged_df) |->
                [ID         |-> merged_df[i].ID,
                 Logueo     |-> convert_time_format(merged_df[i].conexion),
                 CARTERA    |-> extract_cartera_from_gerencia_and_rango(
                                    merged_df[i].gerencia, merged_df[i].rango),
                 RECUPERADO |-> merged_df[i].RECUPERADO,
                 ULTIMO     |-> convert_time_format(merged_df[i].ultimo)]]
    IN  sort_values_desc(
            drop_duplicates(sort_values_desc(report_sheet_df, "RECUPERADO")),
            "RECUPERADO")

\* procesar_admin_cobranza: both files are required
procesar_admin_cobranza(archivos) ==
    IF ~archivos.admin.presente \/ ~archivos.asistencia.presente
    THEN [estado |-> "error", hoja |-> <<>>]
    ELSE [estado |-> "ok",
          hoja |-> generar_archivo_excel(
                       sort_values_desc(
                           merge_left(archivos.admin.hoja,
                                      archivos.asistencia.hoja),
                           "RECUPERADO"))]

ProcesarAdminCobranza ==
    /\ reporte2 = NoReporte2
    /\ reporte2' = procesar_admin_cobranza(archivos2)
    /\ UNCHANGED <<varsLibro, varsCartera, varsCalidad, varsServicio, varsLlamadas, varsTexto, escritor, calidad,
                   archivos2>>

(***************************************************************************)
(* Report 3 as a web handler: roster, uploads, day sheet, temp files       *)
(***************************************************************************)
Clientes == {1, 2}

\* request.files.get(...) when the form field carries no file
SinArchivo == [presente |-> FALSE, hoja |-> <<>>]

\* no file name
NoNombre == [tipo |-> "", sello |-> 0]

\* no upload set: the form carries no file
SinSubida == [fecha |-> NoFecha, admin |-> SinArchivo, llamadas |-> SinArchivo]

\* no response received yet
NoRespuesta == [estado |-> "pendiente", temp_file |-> NoNombre, base |-> <<>>]

\* base_asesores.json does not exist
BaseAusente == [estado |-> "ausente", asesores |-> <<>>]

\* load_base_asesores(): the list of the file, [] when the file is missing
\* (FileNotFoundError) or is not complete JSON (JSONDecodeError)
load_base_asesores(archivo) ==
    IF archivo.estado = "completo" THEN archivo.asesores ELSE <<>>

\* create_data_map(data, key_column): rows without key are skipped and a later
\* row replaces an earlier row of the same key
create_data_map(data, key_column) ==
    LET claves == { data[i][key_column] : i \in 1..Len(data) } \ {Vacio}
    IN  [k \in claves |->
            data[CHOOSE i \in 1..Len(data) :
                    /\ data[i][key_column] = k
                    /\ \A j \in 1..Len(data) :
                          data[j][key_column] = k => j <= i]]

\* generate_report_rows over the roster, then the rows without Logueo removed
hoja_reporte3(base_asesores, admin_data, llamadas_data, sheet_name) ==
    LET admin_map == create_data_map(admin_data, "ID")
        llamadas_map == create_data_map(llamadas_data, "EXT")
        f(asesor) ==
            [fecha    |-> sheet_name,
             cedula   |-> asesor.Cedula,
             id       |-> asesor.ID,
             admin    |-> IF asesor.ID \in DOMAIN admin_map
                          THEN admin_map[asesor.ID] ELSE NoAdmin,
             llamadas |-> IF asesor.EXT \in DOMAIN llamadas_map
                          THEN llamadas_map[asesor.EXT].Total ELSE Vacio,
             voip     |-> 0]
        report_rows == [i \in 1..Len(base_asesores) |->
                           FiltroLogueo(generate_report_rows(f(base_asesores[i])))]
    IN  SelectSeq(report_rows, LAMBDA r : r.presente)

\* temp_reporte3_<%Y%m%d_%H%M%S>.xlsx
NombreTemporal3(ahora) == [tipo |-> "temp_reporte3", sello |-> ahora]

\* ..._metadata.json of a temp file
NombreMetadata(nombre) == [tipo |-> "metadata", sello |-> nombre.sello]

\* procesar_reporteria_cobranza for one request: the response and the files
\* it writes in temp_files/
procesar_reporteria_cobranza(up, archivo_base, ahora) ==
    LET base_asesores == load_base_asesores(archivo_base)
        hoja == hoja_reporte3(base_asesores, up.admin.hoja,
                              up.llamadas.hoja, up.fecha)
        nombre == NombreTemporal3(ahora)
    IN  IF ~up.admin.presente \/ ~up.llamadas.presente
        THEN [respuesta |-> [estado |-> "error", temp_file |-> NoNombre,
                             base |-> <<>>],
              escritos |-> {}]
        ELSE IF base_asesores = <<>>
        THEN [respuesta |-> [estado |-> "error", temp_file |-> NoNombre,
                             base |-> base_asesores],
              escritos |-> {}]
        ELSE [respuesta |-> [estado |-> "ok", temp_file |-> nombre,
                             base |-> base_asesores],
              escritos |-> { [nombre |-> nombre,
                              contenido |-> [hoja |-> hoja]],
                            [nombre |-> NombreMetadata(nombre),
                             contenido |-> [hoja |-> <<>>]] }]

\* the handler of client c runs on its upload set
ProcesarReporteria(c) ==
    /\ respuesta[c] = NoRespuesta
    /\ LET r == procesar_reporteria_cobranza(subida[c], base_file, reloj)
           nombres == { e.nombre : e \in r.escritos }
       IN  /\ respuesta' = [respuesta EXCEPT ![c] = r.respuesta]
           /\ temp_files' =
                 [n \in DOMAIN temp_files \cup nombres |->
                     IF n \in nombres
                     THEN (CHOOSE e \in r.escritos : e.nombre = n).contenido
                     ELSE temp_files[n]]
    /\ UNCHANGED <<varsLibro, varsCartera, varsCalidad, varsAdmin, varsLlamadas,
                   varsTexto, escritor, calidad, base_file, subida, reloj>>

\* descargar_reporte3 for the temp file named in the response of client c:
\* the workbook stored under that name, if any
descargar_reporte3(c) ==
    IF respuesta[c].temp_file \in DOMAIN temp_files
    THEN [estado |-> "ok", hoja |-> temp_files[respuesta[c].temp_file].hoja]
    ELSE [estado |-> "no encontrado", hoja |-> <<>>]

\* a second goes by on datetime.now()
Tick ==
    /\ reloj < MaxReloj
    /\ reloj' = reloj + 1
    /\ UNCHANGED <<varsLibro, varsCartera, varsCalidad, varsAdmin, varsLlamadas,
                   varsTexto, escritor, calidad, base_file, subida, respuesta,
                   temp_files>>

(***************************************************************************)
(* Report 4 as a web handler                                               *)
(***************************************************************************)
\* Report 4 has not answered
NoCalidad == [estado |-> "pendiente", filename |-> NoNombre]

\* the date datetime.now() shows during the run
HoyCalidad == [d |-> 20, m |-> 8, y |-> 2025]

\* generar_nombre_archivo_calidad: "Reporte Calidad (<first day>-<last day>
\* ...).xlsx" of the dates of the rows, today's date when there are none
generar_nombre_archivo_calidad(df_reporte3) ==
    LET dias == { DATEVALUE(df_reporte3[i].Fecha) : i \in 1..Len(df_reporte3) }
    IN  [tipo |-> "Reporte Calidad",
         sello |-> IF dias = {} THEN DATEVALUE(HoyCalidad)
                   ELSE CHOOSE x \in dias : \A y \in dias : x <= y]

\* generar_reporte_calidad: the Operativo sheet of the rows of the Report 3
\* workbook that pass the assignment filter, saved in temp_files/
generar_reporte_calidad(hoja3) ==
    LET df_reporte3 == SelectSeq(hoja3, LAMBDA r : FiltroAsignacion(r).presente)
        hoja == IF df_reporte3 = <<>> THEN <<crear_hoja_operativo(NoRow)>>
                ELSE [i \in 1..Len(df_reporte3) |->
                         crear_hoja_operativo(df_reporte3[i])]
    IN  [nombre |-> generar_nombre_archivo_calidad(df_reporte3),
         contenido |-> [hoja |-> hoja]]

\* variant: the workbook of the placeholder row is saved before the Report 3
\* file is looked for
procesar_reporte_calidad_escribe_antes(reporte3_auto_file, archivos) ==
    IF reporte3_auto_file = NoNombre \/ reporte3_auto_file \notin DOMAIN archivos
    THEN [respuesta |-> [estado |-> "error", filename |-> NoNombre],
          escritos |-> {generar_reporte_calidad(<<>>)}]
    ELSE LET r == generar_reporte_calidad(archivos[reporte3_auto_file].hoja)
         IN  [respuesta |-> [estado |-> "ok", filename |-> r.nombre],
              escritos |-> {r}]

\* procesar_reporte_calidad: the temp file of step 3 named in the form, else
\* the uploaded Report 3 file (none is uploaded here); without either, or
\* with a name that is not in temp_files/, an error and nothing written
procesar_reporte_calidad(reporte3_auto_file, archivos) ==
    IF reporte3_auto_file = NoNombre \/ reporte3_auto_file \notin DOMAIN archivos
    THEN [respuesta |-> [estado |-> "error", filename |-> NoNombre],
          escritos |-> {}]
    ELSE LET r == generar_reporte_calidad(archivos[reporte3_auto_file].hoja)
         IN  [respuesta |-> [estado |-> "ok", filename |-> r.nombre],
              escritos |-> {r}]

\* client c asks for Report 4 with the temp file name Report 3 gave it
ProcesarReporteCalidad(c) ==
    /\ respuesta[c] # NoRespuesta
    /\ calidad[c] = NoCalidad
    /\ LET r == procesar_reporte_calidad(respuesta[c].temp_file, temp_files)
           nombres == { e.nombre : e \in r.escritos }
       IN  /\ calidad' = [calidad EXCEPT ![c] = r.respuesta]
           /\ temp_files' =
                 [n \in DOMAIN temp_files \cup nombres |->
                     IF n \in nombres
                     THEN (CHOOSE e \in r.escritos : e.nombre = n).contenido
                     ELSE temp_files[n]]
    /\ UNCHANGED <<varsLibro, varsCartera, varsCalidad, varsAdmin, varsLlamadas,
                   varsTexto, escritor, base_file, subida, respuesta, reloj>>

(***************************************************************************)
(* Report 3: the update of the roster file                                 *)
(***************************************************************************)
\* no update of the roster has been asked for
SinActualizacion == [pc |-> "idle", nueva |-> <<>>, backup |-> BaseAusente]

\* actualizar_base_asesores, step 1: shutil.copy2 of the current file, when
\* there is one, to a backup name
Respaldar ==
    /\ escritor.pc = "inicio"
    /\ escritor' = [escritor EXCEPT
                       !.pc = "respaldado",
                       !.backup = IF base_file.estado = "ausente"
                                  THEN BaseAusente ELSE base_file]
    /\ UNCHANGED <<varsLibro, varsCartera, varsCalidad, varsAdmin, varsLlamadas,
                   varsTexto, varsServicio, calidad>>

\* step 2: open(BASE_ASESORES_FILE, 'w') leaves the file empty
Abrir ==
    /\ escritor.pc = "respaldado"
    /\ base_file' = [estado |-> "parcial", asesores |-> <<>>]
    /\ escritor' = [escritor EXCEPT !.pc = "abierto"]
    /\ UNCHANGED <<varsLibro, varsCartera, varsCalidad, varsAdmin, varsLlamadas,
                   varsTexto, calidad, subida, respuesta, temp_files, reloj>>

\* step 3: json.dump writes the list piece by piece
Escribir ==
    /\ escritor.pc = "abierto"
    /\ Len(base_file.asesores) < Len(escritor.nueva)
    /\ base_file' = [estado |-> "parcial",
                     asesores |-> Append(base_file.asesores,
                                     escritor.nueva[Len(base_file.asesores) + 1])]
    /\ UNCHANGED <<varsLibro, varsCartera, varsCalidad, varsAdmin, varsLlamadas,
                   varsTexto, escritor, calidad, subida, respuesta,
                   temp_files, reloj>>

\* step 4: the closing bracket is written and the file closed
Cerrar ==
    /\ escritor.pc = "abierto"
    /\ Len(base_file.asesores) = Len(escritor.nueva)
    /\ base_file' = [estado |-> "completo", asesores |-> escritor.nueva]
    /\ escritor' = [escritor EXCEPT !.pc = "fin"]
    /\ UNCHANGED <<varsLibro, varsCartera, varsCalidad, varsAdmin, varsLlamadas,
                   varsTexto, calidad, subida, respuesta, temp_files, reloj>>

(***************************************************************************)
(* Pipeline steps for one (asesor, day sheet)                              *)
(***************************************************************************)
\* procesar_reporteria_cobranza: build the row, drop it when it has no Logueo
GenerateReportRows ==
    /\ etapa = "fuentes"
    /\ fila3' = FiltroLogueo(generate_report_rows(fuentes))
    /\ etapa' = "reporte3"
    /\ UNCHANGED <<varsLibro, varsCartera, fuentes, operativo,
                   biometricos, asistencia, ausentismo, varsServicio,
                   varsAdmin, varsLlamadas, varsTexto, escritor, calidad>>

\* generar_reporte_calidad on the Report 3 workbook: assignment filter, then
\* the Operativo sheet with its formulas
GenerarReporteCalidad ==
    /\ etapa = "reporte3"
    /\ LET df_reporte3 == FiltroAsignacion(fila3)
           datos == procesar_archivo_biometricos(biometricos)
           op == crear_hoja_operativo(df_reporte3)
       IN  /\ operativo' = op
           /\ ausentismo' = sincronizar_codigos_ausentismo(df_reporte3, op, datos)
           /\ asistencia' = crear_hoja_asistencia_lideres(datos)
    /\ etapa' = "calidad"
    /\ UNCHANGED <<varsLibro, varsCartera, fuentes, fila3, biometricos, varsServicio,
                   varsAdmin, varsLlamadas, varsTexto, escritor, calidad>>

\* generar_prueba_reporte4: generar_reporte_calidad(None)
GenerarPruebaReporte4 ==
    /\ etapa = "fuentes"
    /\ LET op == crear_hoja_operativo(NoRow)
       IN  /\ operativo' = op
           /\ ausentismo' = sincronizar_codigos_ausentismo(NoRow, op, SinBiometricos)
           /\ asistencia' = crear_hoja_asistencia_lideres(SinBiometricos)
    /\ etapa' = "calidad"
    /\ UNCHANGED <<varsLibro, varsCartera, fuentes, fila3, biometricos, varsServicio,
                   varsAdmin, varsLlamadas, varsTexto, escritor, calidad>>

(***************************************************************************)
(* Input samples                                                           *)
(***************************************************************************)
\* the asesor of the roster whose row is followed
CedulaAsesor == 11
IdAsesor     == 2020

Jue14Ago == [d |-> 14, m |-> 8, y |-> 2025]   \* Thursday, Normal
Vie15Ago == [d |-> 15, m |-> 8, y |-> 2025]   \* Friday, Pago
Sab16Ago == [d |-> 16, m |-> 8, y |-> 2025]   \* Saturday, Pago
Sab09Ago == [d |-> 9,  m |-> 8, y |-> 2025]   \* Saturday, Normal

Fuentes(Fs, Ls, Us, Cs, As, Gs, Ts, Ms, Vs) ==
    [fecha : Fs, cedula : {CedulaAsesor}, id : {IdAsesor},
     admin : [presente : {TRUE}, Logueo : Ls, CARTERA : Cs, ASIGNACION : As,
              TOCADAS : Gs, TOQUES : Ts, ULTIMO : Us] \cup {NoAdmin},
     llamadas : Ms,
     voip : Vs]

FuentesHorario ==
    Fuentes({NoFecha, Jue14Ago, Vie15Ago, Sab16Ago, Sab09Ago},
            {Vacio, HMS(7,29,0), HMS(7,30,0), HMS(7,31,0), HMS(8,0,0), HMS(8,0,1)},
            {Vacio, HMS(12,19,59), HMS(12,20,0), HMS(17,19,59), HMS(17,20,0),
             HMS(18,49,59), HMS(18,50,0)},
            {L_M0_PP}, {44}, {39, 40}, {119, 120}, {149, 150}, {0})

FuentesGestion ==
    Fuentes({Jue14Ago},
            {HMS(8,0,0), HMS(8,0,1)},
            {HMS(17,19,59), HMS(17,20,0)},
            {<<>>, L_M0_PP, L_M0_1_PP, T_M1_2, T_m0},
            {5, 15, 44, 45},
            {Vacio, 13, 14, 39, 40, 44, 45},
            {Vacio, 119, 120, 159, 160},
            {Vacio, 100, 149, 150},
            {0, 100})

\* every field the indicators read is blank or holds a value that satisfies
\* its rule
FuentesVacios ==
    Fuentes({NoFecha, Jue14Ago},
            {Vacio, HMS(7,29,0)},
            {Vacio, HMS(18,50,0)},
            {<<>>, L_M0_PP}, {Vacio, 44}, {Vacio, 45}, {Vacio, 160},
            {Vacio, 150}, {0})

\* every day of August 2025
DiasAgosto == { [d |-> k, m |-> 8, y |-> 2025] : k \in 1..31 }

T_gerente == <<"g","e","r","e","n","t","e">>

\* one asesor on any day of the month (or without date)
FuentesJornada ==
    Fuentes(DiasAgosto \cup {NoFecha}, {HMS(7,31,0)}, {HMS(17,20,0)},
            {L_M0_PP}, {44}, {40}, {120}, {150}, {0})

\* a biometric file with one event of a leader on any day of the month
BiometricosJornada ==
    { [archivo |-> TRUE,
       filas |-> <<[CEDULA |-> 33, FECHA |-> f, HORA |-> HMS(7,45,0),
                    CARGO |-> c]>>] :
          f \in DiasAgosto, c \in {T_SUPERVISOR, T_gerente} }
        \cup {NoArchivo}

\* two asesores of the roster; ID 2022 and extension 103 belong to nobody
AsesorA == [ID |-> 2020, EXT |-> 101, Cedula |-> 11]
AsesorB == [ID |-> 2021, EXT |-> 102, Cedula |-> 12]

\* one row of an admin day sheet (Report 2 layout)
FilaAdmin(id, logueo) ==
    [presente |-> TRUE, ID |-> id, Logueo |-> logueo, CARTERA |-> L_M0_PP,
     ASIGNACION |-> 44, TOCADAS |-> 40, TOQUES |-> 120,
     ULTIMO |-> HMS(17, 20, 0)]

\* the sequences of at most n elements of S
SeqHasta(S, n) == UNION { [1..k -> S] : k \in 0..n }

HojasAdmin ==
    SeqHasta({ FilaAdmin(id, l) : id \in {2020, 2022},
                                  l \in {Vacio, HMS(7,29,0), HMS(7,31,0)} },
             MaxFilas)

HojasLlamadas ==
    SeqHasta({ [EXT |-> 101, Total |-> 100], [EXT |-> 101, Total |-> 150],
               [EXT |-> 103, Total |-> 150] }, MaxFilas)

\* upload sets of Report 3 for the day sheet of 14 August
SubidasConciliacion ==
    [fecha : {Jue14Ago},
     admin : [presente : {TRUE}, hoja : HojasAdmin],
     llamadas : [presente : {TRUE}, hoja : HojasLlamadas]]

\* upload sets of Report 3 with a login of each asesor of the roster
SubidasRoster ==
    [fecha : {Jue14Ago},
     admin : [presente : {TRUE},
              hoja : { <<FilaAdmin(2020, HMS(7,29,0))>>,
                       <<FilaAdmin(2020, HMS(7,29,0)),
                         FilaAdmin(2021, HMS(7,31,0))>> }],
     llamadas : [presente : {TRUE}, hoja : { <<[EXT |-> 101, Total |-> 150]>> }]]

\* the rows of the admin file of one day: two collectors, two amounts
\* recovered, a last contact in the morning or in the afternoon
FilasAdmin2 ==
    { [ID |-> id, gerencia |-> T_GERENCIA,
       rango |-> <<"R","M","1","-","1","A">>,
       RECUPERADO |-> rec, ultimo |-> u, conexion |-> Vacio] :
         id \in {2020, 2021}, rec \in {100, 500},
         u \in {HMS(10,0,0), HMS(17,30,0)} }

\* the rows of the attendance file of that day: first connections of 2020
FilasAsistencia2 ==
    { [ID |-> 2020, conexion |-> t] : t \in {HMS(7,25,0), HMS(8,5,0)} }

Archivos2 ==
    { [admin |-> [presente |-> TRUE, hoja |-> a],
       asistencia |-> [presente |-> TRUE, hoja |-> b]] :
         a \in SeqHasta(FilasAdmin2, MaxFilas),
         b \in SeqHasta(FilasAsistencia2, MaxFilas) }
    \cup { [admin |-> [presente |-> TRUE, hoja |-> <<>>],
            asistencia |-> SinArchivo] }

\* the rows of the call files: calls of two collectors on 8 and 9 August,
\* and a call of an extension that is not a collector
FilasLlamadas1 ==
    { [Fuente |-> 101, dia |-> 8, hora |-> HMS(9,0,0), Estado |-> "ANSWERED"],
      [Fuente |-> 101, dia |-> 8, hora |-> HMS(15,0,0), Estado |-> "NO ANSWER"],
      [Fuente |-> 102, dia |-> 9, hora |-> HMS(9,0,0), Estado |-> "ANSWERED"],
      [Fuente |-> 30001, dia |-> 8, hora |-> HMS(15,0,0),
       Estado |-> "ANSWERED"] }

\* uploads of Report 1: up to MaxArchivos files of up to MaxFilas rows
Archivos1 == SeqHasta(SeqHasta(FilasLlamadas1, MaxFilas), MaxArchivos)

(***************************************************************************)
(* Texts given to the normalisers                                          *)
(***************************************************************************)
\* dates written out in Spanish, with month names that exist and that do not
FechasLargas ==
    { <<"8"," ","d","e"," ","a","g","o","s","t","o"," ","d","e"," ","2","0","2","5">>,
      <<"8"," ","d","e"," ","A","g","o","s","t","o"," ","d","e"," ","2","0","2","5">>,
      <<"8"," ","d","e"," ","a","g","o","s","t"," ","d","e"," ","2","0","2","5">>,
      <<"8"," ","d","e"," ","f","e","b","r","e","r","o"," ","d","e"," ","2","0","2","5">>,
      <<"8"," ","d","e"," ","s","e","p","t"," ","d","e"," ","2","0","2","5">>,
      <<"0","8"," ","d","e"," ","a","g","o","s","t","o"," ","d","e"," ","2","0","2","5">>,
      <<"0","8"," ","d","e"," ","A","g","o","s","t","o"," ","d","e"," ","2","0","2","5">>,
      <<"0","8"," ","d","e"," ","a","g","o","s","t"," ","d","e"," ","2","0","2","5">>,
      <<"0","8"," ","d","e"," ","f","e","b","r","e","r","o"," ","d","e"," ","2","0","2","5">>,
      <<"0","8"," ","d","e"," ","s","e","p","t"," ","d","e"," ","2","0","2","5">>,
      <<"3","1"," ","d","e"," ","a","g","o","s","t","o"," ","d","e"," ","2","0","2","5">>,
      <<"3","1"," ","d","e"," ","A","g","o","s","t","o"," ","d","e"," ","2","0","2","5">>,
      <<"3","1"," ","d","e"," ","a","g","o","s","t"," ","d","e"," ","2","0","2","5">>,
      <<"3","1"," ","d","e"," ","f","e","b","r","e","r","o"," ","d","e"," ","2","0","2","5">>,
      <<"3","1"," ","d","e"," ","s","e","p","t"," ","d","e"," ","2","0","2","5">> }

\* dates in the formats limpiar_fecha reads, a text shaped as a date, a word
FechasCortas ==
    { <<"2","0","2","5","-","0","8","-","0","4">>,
      <<"0","4","/","0","8","/","2","0","2","5">>,
      <<"0","4","-","0","8","-","2","0","2","5">>,
      <<"2","0","2","5","/","0","8","/","0","4">>,
      <<"0","4",".","0","8",".","2","0","2","5">>,
      <<"2","0","2","5","-","0","8","-","0","4"," ","1","2",":","0","0",":","0","0">>,
      <<"8","/","4","/","2","0","2","5">>,
      <<"9","9","/","9","9","/","2","0","2","5">>,
      <<"h","o","y">>,
      <<" ","2","0","2","5","-","0","8","-","0","4"," ">> }

\* year, month and day around one separator, in range and out of range
FechasSeparadas ==
    { <<"2","0","2","5","-","0","8","-","0","4">>,
      <<"0","4","-","0","8","-","2","0","2","5">>,
      <<"2","0","2","5","-","1","3","-","0","4">>,
      <<"3","1","-","0","2","-","2","0","2","5">>,
      <<"2","0","2","5","/","0","8","/","0","4">>,
      <<"0","4","/","0","8","/","2","0","2","5">>,
      <<"2","0","2","5","/","1","3","/","0","4">>,
      <<"3","1","/","0","2","/","2","0","2","5">>,
      <<"2","0","2","5",".","0","8",".","0","4">>,
      <<"0","4",".","0","8",".","2","0","2","5">>,
      <<"2","0","2","5",".","1","3",".","0","4">>,
      <<"3","1",".","0","2",".","2","0","2","5">> }

\* a word, a date with time, numbers of days
OtrasFechas ==
    { <<"h","o","y">>,
      <<"2","0","2","5","-","0","8","-","0","4"," ","1","2",":","0","0",":","0","0">>,
      <<"1","0","0","0","0","0","0">>,
      <<"4","5","8","7","8">>,
      <<"4","5","8","7","8",".","0">>,
      <<"s","i","n"," ","f","e","c","h","a">> }

\* times of day in 24 hours and in 12 hours, out of range, words
Horas ==
    { <<"7",":","3","0">>,
      <<"0","7",":","3","0",":","0","0">>,
      <<"1","4",":","3","0">>,
      <<"0",":","0","5",":","0","9">>,
      <<"1","2",":","0","0",":","0","0">>,
      <<"7",":","3","0"," ","P","M">>,
      <<"2",":","3","0",":","0","0"," ","p","m">>,
      <<"2","5",":","0","0">>,
      <<"7",":","6","0">>,
      <<"h","o","y">>,
      <<"s","i","n"," ","d","a","t","o">>,
      <<" ","8",":","0","0"," ">> }

\* the calls of the normalisers: the function and its argument
Entradas ==
    [funcion : {"limpiar_fecha"},
     texto : FechasLargas \cup FechasCortas \cup {<<>>}]
    \cup [funcion : {"convertir_fecha_formato"},
          texto : FechasLargas \cup FechasSeparadas \cup OtrasFechas
                      \cup {<<>>}]
    \cup [funcion : {"convertir_hora_formato"}, texto : Horas \cup {<<>>}]

(***************************************************************************)
(* Report 4 workbook: the Report 3 sheet mapped onto the Operativo columns *)
(***************************************************************************)
\* obtener_columnas_operativo(): the columns of the Operativo sheet, in order
obtener_columnas_operativo ==
    << <<"C","O","D","I","G","O">>,
       <<"T","i","p","o"," ","J","o","r","n","a","d","a">>,
       <<"F","e","c","h","a">>,
       <<"C","e","d","u","l","a">>,
       <<"I","D">>,
       <<"E","X","T">>,
       <<"V","O","I","P">>,
       <<"N","o","m","b","r","e">>,
       <<"S","e","d","e">>,
       <<"U","b","i","c","a","c","i","o","n">>,
       <<"L","o","g","u","e","o">>,
       <<"M","o","r","a">>,
       <<"A","s","i","g","n","a","c","i","o","n">>,
       <<"C","l","i","e","n","t","e","s"," ","g","e","s","t","i","o","n","a","d","o","s"," ","1","1"," ","a","m">>,
       <<"C","a","p","i","t","a","l"," ","A","s","i","g","n","a","d","o">>,
       <<"C","a","p","i","t","a","l"," ","R","e","c","u","p","e","r","a","d","o">>,
       <<"P","A","G","O","S">>,
       <<"%"," ","R","e","c","u","p","e","r","a","d","o">>,
       <<"%"," ","C","u","e","n","t","a","s">>,
       <<"T","o","t","a","l"," ","t","o","q","u","e","s">>,
       <<"U","l","t","i","m","o"," ","T","o","q","u","e">>,
       <<"L","l","a","m","a","d","a","s"," ","M","i","c","r","o","s","i","p">>,
       <<"L","l","a","m","a","d","a","s"," ","V","O","I","P">>,
       <<"T","o","t","a","l"," ","L","l","a","m","a","d","a","s">>,
       <<"G","e","r","e","n","c","i","a">>,
       <<"T","e","a","m">>,
       <<"M","e","t","a">>,
       <<"E","j","e","c","u","c","i","o","n">>,
       <<"I","n","d"," ","L","o","g","u","e","o">>,
       <<"I","n","d"," ","U","l","t","i","m","o">>,
       <<"I","n","d"," ","G","e","s"," ","M","e","d","i","o">>,
       <<"I","n","d"," ","L","l","a","m","a","d","a","s">>,
       <<"I","n","d","i","c","a","d","o","r"," ","T","o","q","u","e","s">>,
       <<"I","n","d"," ","P","a","u","s","a">>,
       <<"T","o","t","a","l"," ","I","n","f","r","a","c","c","i","o","n","e","s">>,
       <<"T","o","t","a","l"," ","O","p","e","r","a","t","i","v","o">> >>

\* obtener_mapeo_columnas_operativo(): Operativo column and the Report 3
\* column expected for it
obtener_mapeo_columnas_operativo ==
    { <<<<"F","e","c","h","a">>,
        <<"F","e","c","h","a">>>>,
      <<<<"C","e","d","u","l","a">>,
        <<"C","e","d","u","l","a">>>>,
      <<<<"I","D">>,
        <<"I","D">>>>,
      <<<<"E","X","T">>,
        <<"E","X","T">>>>,
      <<<<"V","O","I","P">>,
        <<"V","O","I","P">>>>,
      <<<<"N","o","m","b","r","e">>,
        <<"N","o","m","b","r","e">>>>,
      <<<<"S","e","d","e">>,
        <<"S","e","d","e">>>>,
      <<<<"U","b","i","c","a","c","i","o","n">>,
        <<"U","b","i","c","a","c","i","o","n">>>>,
      <<<<"L","o","g","u","e","o">>,
        <<"L","o","g","u","e","o">>>>,
      <<<<"M","o","r","a">>,
        <<"M","o","r","a">>>>,
      <<<<"A","s","i","g","n","a","c","i","o","n">>,
        <<"A","s","i","g","n","a","c","i","o","n">>>>,
      <<<<"P","A","G","O","S">>,
        <<"P","A","G","O","S">>>>,
      <<<<"T","o","t","a","l"," ","t","o","q","u","e","s">>,
        <<"T","o","t","a","l"," ","t","o","q","u","e","s">>>>,
      <<<<"U","l","t","i","m","o"," ","T","o","q","u","e">>,
        <<"U","l","t","i","m","o"," ","T","o","q","u","e">>>>,
      <<<<"L","l","a","m","a","d","a","s"," ","M","i","c","r","o","s","i","p">>,
        <<"L","l","a","m","a","d","a","s"," ","M","i","c","r","o","s","i","p">>>>,
      <<<<"L","l","a","m","a","d","a","s"," ","V","O","I","P">>,
        <<"L","l","a","m","a","d","a","s"," ","V","O","I","P">>>>,
      <<<<"T","o","t","a","l"," ","L","l","a","m","a","d","a","s">>,
        <<"T","o","t","a","l"," ","L","l","a","m","a","d","a","s">>>>,
      <<<<"G","e","r","e","n","c","i","a">>,
        <<"G","e","r","e","n","c","i","a">>>>,
      <<<<"T","e","a","m">>,
        <<"T","e","a","m">>>>,
      <<<<"M","e","t","a">>,
        <<"M","e","t","a">>>>,
      <<<<"E","j","e","c","u","c","i","o","n">>,
        <<"E","j","e","c","u","c","i","o","n">>>>,
      <<<<"C","l","i","e","n","t","e"," ","g","e","s","t","i","o","n","a","d","o","s"," ","1","1"," ","a","m">>,
        <<"C","l","i","e","n","t","e","s"," ","g","e","s","t","i","o","n","a","d","o","s"," ","1","1"," ","a","m">>>>,
      <<<<"C","a","p","i","t","a","l"," ","A","s","i","g","n","a","d","o">>,
        <<"C","a","p","i","t","a","l"," ","A","s","i","g","n","a","d","o">>>>,
      <<<<"C","a","p","i","t","a","l"," ","R","e","c","u","p","e","r","a","d","o">>,
        <<"C","a","p","i","t","a","l"," ","R","e","c","u","p","e","r","a","d","o">>>>,
      <<<<"%"," ","R","e","c","u","p","e","r","a","d","o">>,
        <<"%"," ","R","e","c","u","p","e","r","a","d","o">>>>,
      <<<<"%"," ","C","u","e","n","t","a","s">>,
        <<"%"," ","C","u","e","n","t","a","s">>>>,
      <<<<"I","n","d"," ","L","o","g","u","e","o">>,
        <<"I","n","d"," ","L","o","g","u","e","o">>>>,
      <<<<"I","n","d"," ","U","l","t","i","m","o">>,
        <<"I","n","d"," ","U","l","t","i","m","o">>>>,
      <<<<"I","n","d"," ","G","e","s"," ","M","e","d","i","o">>,
        <<"I","n","d"," ","G","e","s"," ","M","e","d","i","o">>>>,
      <<<<"I","n","d"," ","L","l","a","m","a","d","a","s">>,
        <<"I","n","d"," ","L","l","a","m","a","d","a","s">>>>,
      <<<<"I","n","d","i","c","a","d","o","r"," ","T","o","q","u","e","s">>,
        <<"I","n","d","i","c","a","d","o","r"," ","T","o","q","u","e","s">>>>,
      <<<<"I","n","d"," ","P","a","u","s","a">>,
        <<"I","n","d"," ","P","a","u","s","a">>>>,
      <<<<"T","o","t","a","l"," ","I","n","f","r","a","c","c","i","o","n","e","s">>,
        <<"T","o","t","a","l"," ","I","n","f","r","a","c","c","i","o","n","e","s">>>>,
      <<<<"T","o","t","a","l"," ","O","p","e","r","a","t","i","v","o">>,
        <<"T","o","t","a","l"," ","O","p","e","r","a","t","i","v","o">>>> }

\* unicodedata.normalize('NFD', c) without its combining marks
SinAcento(c) ==
    CASE c = "á" -> "a" [] c = "é" -> "e" [] c = "í" -> "i"
      [] c = "ó" -> "o" [] c = "ú" -> "u" [] OTHER -> c

\* normalizar_texto(texto): accents removed, lower case, stripped
normalizar_texto(texto) ==
    Strip(Minuscula([i \in 1..Len(texto) |-> SinAcento(texto[i])]))

\* str.replace('%', 'porcentaje')
RECURSIVE ReemplazarPorcentaje(_)
ReemplazarPorcentaje(t) ==
    IF t = <<>> THEN <<>>
    ELSE (IF Head(t) = "%"
          THEN <<"p","o","r","c","e","n","t","a","j","e">> ELSE <<Head(t)>>)
            \o ReemplazarPorcentaje(Tail(t))

\* set(texto.replace('%', 'porcentaje').split()): the words between blanks
palabras(texto) ==
    LET partes == split(ReemplazarPorcentaje(texto), " ")
    IN  { partes[i] : i \in DOMAIN partes } \ { <<>> }

\* the test of the inner loop that a pair (Operativo column, Report 3
\* column) passes first: exact, normalised, word overlap of 80%, or none
ReglaDeMapeo(col_operativo, col_reporte3) ==
    LET palabras_operativo == palabras(normalizar_texto(col_operativo))
        palabras_reporte3  == palabras(normalizar_texto(col_reporte3))
    IN  IF Strip(Minuscula(col_reporte3)) = Strip(Minuscula(col_operativo))
        THEN "exacto"
        ELSE IF normalizar_texto(col_reporte3) = normalizar_texto(col_operativo)
        THEN "normalizado"
        ELSE IF /\ palabras_operativo # {}
                /\ 10 * Cardinality(palabras_operativo \cap palabras_reporte3)
                      >= 8 * Cardinality(palabras_operativo)
        THEN "similitud"
        ELSE "ninguno"

\* the explicit mappings whose expected Report 3 column is in the sheet
MapeoExplicito(columns) ==
    LET presentes == { par \in obtener_mapeo_columnas_operativo :
                          \E i \in DOMAIN columns : columns[i] = par[2] }
    IN  [ col_operativo \in { par[1] : par \in presentes } |->
            (CHOOSE par \in presentes : par[1] = col_operativo)[2] ]

\* the inner loop: one Report 3 column offered to the Operativo columns
\* that are not mapped yet, in sheet order
RECURSIVE MapearColumna(_, _, _)
MapearColumna(mapeo, col_reporte3, pendientes) ==
    IF pendientes = <<>> THEN mapeo
    ELSE LET col_operativo == Head(pendientes) IN
         IF \/ col_operativo \in DOMAIN mapeo
            \/ ReglaDeMapeo(col_operativo, col_reporte3) = "ninguno"
         THEN MapearColumna(mapeo, col_reporte3, Tail(pendientes))
         ELSE MapearColumna((col_operativo :> col_reporte3) @@ mapeo,
                            col_reporte3, Tail(pendientes))

\* the outer loop over the Report 3 columns, in file order
RECURSIVE MapearColumnas(_, _, _)
MapearColumnas(mapeo, columns, restantes) ==
    IF restantes = <<>> THEN mapeo
    ELSE MapearColumnas(MapearColumna(mapeo, Head(restantes),
                                      obtener_columnas_operativo),
                        columns, Tail(restantes))

\* crear_hoja_operativo: mapeo_columnas for the columns of the sheet read
mapear_columnas_operativo(columns) ==
    MapearColumnas(MapeoExplicito(columns), columns, columns)

(***************************************************************************)
(* Report 4 workbook: the sheets generar_reporte_calidad writes.  A sheet   *)
(* read is its column names in file order and its rows, a row being the     *)
(* cell values in column order.  A date cell is the number yyyymmdd, a      *)
(* blank cell is Vacio.                                                     *)
(***************************************************************************)
\* no Report 3 sheet has been read
SinHoja == [columns |-> <<>>, filas |-> <<>>]

\* no mapping has been computed
SinMapeo == <<>>

\* Report 4 has not run
NoLibro == [estado |-> "pendiente", operativo |-> <<>>, ausentismo |-> <<>>,
            consolidado |-> <<>>]

T_Fecha      == <<"F","e","c","h","a">>
T_Cedula     == <<"C","e","d","u","l","a">>
T_ID         == <<"I","D">>
T_Asignacion == <<"A","s","i","g","n","a","c","i","o","n">>

\* position of the first column of that exact name, 0 when there is none
\* ('Fecha' in df.columns, row['Cedula'])
IndiceColumna(columns, nombre) ==
    IF \E i \in DOMAIN columns : columns[i] = nombre
    THEN CHOOSE i \in DOMAIN columns :
            columns[i] = nombre /\ \A j \in 1..(i - 1) : columns[j] # nombre
    ELSE 0

\* the first column whose name, lower-cased and with its accent removed,
\* is 'asignacion'
columna_asignacion(columns) ==
    LET es(i) == Minuscula([k \in 1..Len(columns[i]) |->
                               IF columns[i][k] = "ó" THEN "o"
                               ELSE columns[i][k]]) = Minuscula(T_Asignacion)
    IN  IF \E i \in DOMAIN columns : es(i)
        THEN CHOOSE i \in DOMAIN columns : es(i) /\ \A j \in 1..(i - 1) : ~es(j)
        ELSE 0

\* sort_values('Fecha', ascending=True, na_position='last'): the orders of
\* the rows it can leave (rows of one day in any order); without a Fecha
\* column, or without any date, the rows stay as read
OrdenesPorFecha(df) ==
    LET n == Len(df.filas)
        c == IndiceColumna(df.columns, T_Fecha)
        clave(i) == IF df.filas[i][c] = Vacio THEN 99999999 ELSE df.filas[i][c]
    IN  IF c = 0 \/ \A i \in 1..n : df.filas[i][c] = Vacio
        THEN { [i \in 1..n |-> i] }
        ELSE { p \in Permutations(1..n) :
                 \A i \in 1..n, j \in 1..n :
                    i < j => clave(p[i]) <= clave(p[j]) }

\* the rows left by the date sort and by the filter
\* df[df[columna_asignacion] > FILTRO_ASIGNACION_MIN]
filtrar_reporte3(df, orden) ==
    LET ordenadas == [i \in 1..Len(df.filas) |-> df.filas[orden[i]]]
        a == columna_asignacion(df.columns)
    IN  [columns |-> df.columns,
         filas |-> IF a = 0 THEN ordenadas
                   ELSE SelectSeq(ordenadas,
                                  LAMBDA f : f[a] > FILTRO_ASIGNACION_MIN)]

\* variant: the rows are numbered from the header row
crear_hoja_consolidado_desde_1(df) ==
    IF df.filas = <<>>
    THEN << [fila |-> 2, operativo_fila |-> 0] >>
    ELSE [k \in 1..Len(df.filas) |-> [fila |-> k + 1, operativo_fila |-> k]]

\* crear_hoja_consolidado: row i of the sheet refers to Operativo!A{i}; a
\* sheet without data gets one row of blanks
crear_hoja_consolidado(df) ==
    IF df.filas = <<>>
    THEN << [fila |-> 2, operativo_fila |-> 0] >>
    ELSE [k \in 1..Len(df.filas) |-> [fila |-> k + 1, operativo_fila |-> k + 1]]

\* ID & DD & MM of the CODIGO formula, and Cedula & DD & MM of Codigo Aus:
\* the identifier followed by two digits of day and two of month
codigo_ddmm(ident, fecha) ==
    IF ident = Vacio \/ fecha = Vacio THEN Vacio
    ELSE ident * 10000 + (fecha % 100) * 100 + ((fecha \div 100) % 100)

\* the data rows of the Operativo sheet: the mapped columns copied, the
\* others blank, CODIGO by formula
filas_operativo(df, mapeo) ==
    LET valor(f, col_operativo) ==
            IF col_operativo \in DOMAIN mapeo
            THEN f[IndiceColumna(df.columns, mapeo[col_operativo])]
            ELSE Vacio
        registro(f, k) ==
            [fila |-> k + 1,
             Fecha |-> valor(f, T_Fecha), Cedula |-> valor(f, T_Cedula),
             ID |-> valor(f, T_ID), Asignacion |-> valor(f, T_Asignacion),
             CODIGO |-> codigo_ddmm(valor(f, T_ID), valor(f, T_Fecha))]
    IN  IF df.filas = <<>>
        THEN << registro([i \in DOMAIN df.columns |-> Vacio], 1) >>
        ELSE IF \A k \in DOMAIN obtener_columnas_operativo :
                   obtener_columnas_operativo[k] \notin DOMAIN mapeo
        THEN <<>>     \* only blanks were assigned to the empty frame
        ELSE [k \in 1..Len(df.filas) |-> registro(df.filas[k], k)]

\* crear_hoja_ausentismo with agregar_formulas_vlookup_ausentismo: row r
\* copies Operativo!A{r}; Codigo Aus is written from the Cedula and Fecha
\* cells of the row read, which raises KeyError without those columns
crear_hoja_ausentismo(df) ==
    LET ce == IndiceColumna(df.columns, T_Cedula)
        fe == IndiceColumna(df.columns, T_Fecha)
    IN  IF df.filas = <<>>
        THEN [error |-> FALSE,
              filas |-> << [fila |-> 2, operativo_fila |-> 2,
                            codigo_aus |-> Vacio] >>]
        ELSE IF ce = 0 \/ fe = 0
        THEN [error |-> TRUE, filas |-> <<>>]
        ELSE [error |-> FALSE,
              filas |-> [k \in 1..Len(df.filas) |->
                           [fila |-> k + 1, operativo_fila |-> k + 1,
                            codigo_aus |-> codigo_ddmm(df.filas[k][ce],
                                                       df.filas[k][fe])]]]

\* generar_reporte_calidad as procesar_reporte_calidad answers it: the
\* sheets of the workbook, or the error of an exception
generar_libro(df, orden) ==
    LET df_filtrado == filtrar_reporte3(df, orden)
        aus == crear_hoja_ausentismo(df_filtrado)
    IN  IF aus.error
        THEN [estado |-> "error", operativo |-> <<>>, ausentismo |-> <<>>,
              consolidado |-> <<>>]
        ELSE [estado |-> "ok",
              operativo |-> filas_operativo(df_filtrado,
                               mapear_columnas_operativo(df.columns)),
              ausentismo |-> aus.filas,
              consolidado |-> crear_hoja_consolidado(df_filtrado)]

(***************************************************************************)
(* Team and Gerente sheets: the Asesores count of a rollup row, as the     *)
(* spreadsheet evaluates the formula of crear_formula_busqueda_multiple     *)
(***************************************************************************)
\* no rollup row is looked at
SinRollup == [hoja |-> "", fecha |-> Vacio, nombre |-> <<>>,
              operativo |-> <<>>, asesores |-> Vacio]

\* Excel FIND(" ", s): position of the first blank (s ends with one here)
FIND_blanco(s) == CHOOSE p \in 1..Len(s) :
                     s[p] = " " /\ \A q \in 1..(p - 1) : s[q] # " "

\* Excel LEFT(s, n)
LEFT(s, n) == SubSeq(s, 1, IF n < Len(s) THEN n ELSE Len(s))

\* Excel MID(s, desde, n)
MID(s, desde, n) ==
    SubSeq(s, desde, IF desde + n - 1 < Len(s) THEN desde + n - 1 ELSE Len(s))

\* Excel REPT(" ", n)
REPT_blanco(n) == [i \in 1..n |-> " "]

\* Excel SUBSTITUTE(s, " ", por)
RECURSIVE SUBSTITUTE_blanco(_, _)
SUBSTITUTE_blanco(s, por) ==
    IF s = <<>> THEN <<>>
    ELSE (IF Head(s) = " " THEN por ELSE <<Head(s)>>)
            \o SUBSTITUTE_blanco(Tail(s), por)

\* Excel TRIM(s): no blank at either end, one blank between words
RECURSIVE UnBlanco(_)
UnBlanco(s) ==
    IF Len(s) < 2 THEN s
    ELSE IF s[1] = " " /\ s[2] = " " THEN UnBlanco(Tail(s))
    ELSE <<s[1]>> \o UnBlanco(Tail(s))

TRIM(s) == UnBlanco(Strip(s))

\* the three words the formula takes from the name cell
PalabraDelNombre(n, nombre) ==
    CASE n = 1 -> LEFT(nombre, FIND_blanco(nombre \o <<" ">>) - 1)
      [] n = 2 -> TRIM(MID(SUBSTITUTE_blanco(nombre, REPT_blanco(50)), 51, 50))
      [] n = 3 -> TRIM(MID(SUBSTITUTE_blanco(nombre, REPT_blanco(50)), 101, 50))

\* condicion_busqueda: ISNUMBER(SEARCH(word, cell)) summed over the three
\* words is at least 2; SEARCH finds the empty text in every cell
condicion_busqueda(nombre, equipo) ==
    Cardinality({ n \in 1..3 :
                    SEARCH(PalabraDelNombre(n, nombre), equipo) }) >= 2

\* SUMPRODUCT((Operativo!C = fecha) * (condicion_busqueda))
formula_asesores(fecha, nombre, filas) ==
    Cardinality({ k \in DOMAIN filas :
                    /\ filas[k].Fecha = fecha
                    /\ condicion_busqueda(nombre, filas[k].equipo) })

\* the workbook is opened and the Asesores cell of the row is calculated
CalcularAsesores ==
    /\ hoja_team # SinRollup
    /\ hoja_team.asesores = Vacio
    /\ hoja_team' = [hoja_team EXCEPT
                       !.asesores = formula_asesores(hoja_team.fecha,
                                                     hoja_team.nombre,
                                                     hoja_team.operativo)]
    /\ UNCHANGED <<df_r3, mapeo_columnas, libro, varsCartera, varsCalidad,
                   varsServicio, varsAdmin, varsLlamadas, varsTexto, escritor,
                   calidad>>

\* Report 4 is asked for with the Report 3 file uploaded
GenerarLibro ==
    /\ df_r3 # SinHoja
    /\ libro = NoLibro
    /\ mapeo_columnas' =
          IF filtrar_reporte3(df_r3, [i \in 1..Len(df_r3.filas) |-> i]).filas = <<>>
          THEN SinMapeo
          ELSE mapear_columnas_operativo(df_r3.columns)
    /\ \E orden \in OrdenesPorFecha(df_r3) :
          libro' = generar_libro(df_r3, orden)
    /\ UNCHANGED <<df_r3, hoja_team, varsCartera, varsCalidad, varsServicio,
                   varsAdmin, varsLlamadas, varsTexto, escritor, calidad>>

(***************************************************************************)
(* Specifications                                                          *)
(***************************************************************************)
CarteraIdle ==
    /\ gerencia_text = <<>>
    /\ rango_text = <<>>
    /\ cartera = <<>>
    /\ pcCartera = "idle"

OperativoIdle ==
    /\ fuentes = [fecha |-> NoFecha, cedula |-> Vacio, id |-> Vacio,
                  admin |-> NoAdmin, llamadas |-> Vacio, voip |-> 0]
    /\ fila3 = NoRow
    /\ operativo = NoOperativo
    /\ etapa = "idle"
    /\ biometricos = NoArchivo
    /\ asistencia = <<>>
    /\ ausentismo = NoAusentismo

\* Report 4 has read no sheet and written no workbook
LibroIdle ==
    /\ df_r3 = SinHoja
    /\ mapeo_columnas = SinMapeo
    /\ libro = NoLibro
    /\ hoja_team = SinRollup

TextoIdle ==
    /\ entrada = [funcion |-> "", texto |-> <<>>]
    /\ devuelto = NoSalida
    /\ escritor = SinActualizacion
    /\ calidad = [c \in Clientes |-> NoCalidad]
    /\ LibroIdle

LlamadasIdle ==
    /\ archivos1 = <<>>
    /\ reporte1 = NoReporte1
    /\ TextoIdle

AdminIdle ==
    /\ archivos2 = [admin |-> SinArchivo, asistencia |-> SinArchivo]
    /\ reporte2 = NoReporte2
    /\ LlamadasIdle

ServicioIdle ==
    /\ AdminIdle
    /\ base_file = BaseAusente
    /\ subida = [c \in Clientes |-> SinSubida]
    /\ respuesta = [c \in Clientes |-> NoRespuesta]
    /\ temp_files = <<>>
    /\ reloj = 0

InitCartera ==
    /\ gerencia_text = <<>>
    /\ rango_text \in Rangos
    /\ cartera = <<>>
    /\ pcCartera = "input"
    /\ OperativoIdle
    /\ ServicioIdle

InitOperativo(F, B) ==
    /\ CarteraIdle
    /\ fuentes \in F
    /\ fila3 = NoRow
    /\ operativo = NoOperativo
    /\ etapa = "fuentes"
    /\ biometricos \in B
    /\ asistencia = <<>>
    /\ ausentismo = NoAusentismo
    /\ ServicioIdle

InitHorario == InitOperativo(FuentesHorario, {NoArchivo})

InitJornada == InitOperativo(FuentesJornada, BiometricosJornada)

InitGestion == InitOperativo(FuentesGestion, {NoArchivo})

InitVacios == InitOperativo(FuentesVacios, {NoArchivo})

NextCartera ==
    \/ \E tok \in Tokens : AppendToken(tok)
    \/ Classify
    \/ SiguienteFila

NextOperativo ==
    \/ GenerateReportRows
    \/ GenerarReporteCalidad
    \/ GenerarPruebaReporte4

\* Report 3 on one upload set; the second client sends an empty form
InitConciliacion ==
    /\ CarteraIdle
    /\ OperativoIdle
    /\ base_file \in { [estado |-> "completo", asesores |-> b] :
                          b \in {<<AsesorA>>, <<AsesorA, AsesorB>>} }
    /\ subida \in [Clientes -> SubidasConciliacion \cup {SinSubida}]
    /\ subida[1] # SinSubida
    /\ subida[2] = SinSubida
    /\ respuesta = [c \in Clientes |-> NoRespuesta]
    /\ temp_files = <<>>
    /\ reloj = 0
    /\ AdminIdle

InitAdmin ==
    /\ CarteraIdle
    /\ OperativoIdle
    /\ base_file = BaseAusente
    /\ subida = [c \in Clientes |-> SinSubida]
    /\ respuesta = [c \in Clientes |-> NoRespuesta]
    /\ temp_files = <<>>
    /\ reloj = 0
    /\ archivos2 \in Archivos2
    /\ reporte2 = NoReporte2
    /\ LlamadasIdle

NextAdmin == ProcesarAdminCobranza

SpecAdmin == InitAdmin /\ [][NextAdmin]_vars

\* an upload to Report 1 or an upload to Report 3
InitMezcla ==
    /\ CarteraIdle
    /\ OperativoIdle
    /\ archivos2 = [admin |-> SinArchivo, asistencia |-> SinArchivo]
    /\ reporte2 = NoReporte2
    /\ reporte1 = NoReporte1
    /\ TextoIdle
    /\ respuesta = [c \in Clientes |-> NoRespuesta]
    /\ temp_files = <<>>
    /\ reloj = 0
    /\ \/ /\ archivos1 \in Archivos1
          /\ base_file = BaseAusente
          /\ subida = [c \in Clientes |-> SinSubida]
       \/ /\ archivos1 = <<>>
          /\ base_file = [estado |-> "completo",
                          asesores |-> <<AsesorA, AsesorB>>]
          /\ subida \in [Clientes -> SubidasConciliacion \cup {SinSubida}]
          /\ subida[1] # SinSubida
          /\ subida[2] = SinSubida

NextMezcla ==
    \/ ProcesarLlamadas
    \/ \E c \in Clientes : ProcesarReporteria(c)

SpecMezcla == InitMezcla /\ [][NextMezcla]_vars

InitNormalizar ==
    /\ CarteraIdle
    /\ OperativoIdle
    /\ base_file = BaseAusente
    /\ subida = [c \in Clientes |-> SinSubida]
    /\ respuesta = [c \in Clientes |-> NoRespuesta]
    /\ temp_files = <<>>
    /\ reloj = 0
    /\ archivos2 = [admin |-> SinArchivo, asistencia |-> SinArchivo]
    /\ reporte2 = NoReporte2
    /\ archivos1 = <<>>
    /\ reporte1 = NoReporte1
    /\ entrada \in Entradas
    /\ devuelto = NoSalida
    /\ escritor = SinActualizacion
    /\ calidad = [c \in Clientes |-> NoCalidad]
    /\ LibroIdle

NextNormalizar ==
    \/ LimpiarFecha
    \/ ConvertirFechaFormato
    \/ ConvertirHoraFormato

SpecNormalizar == InitNormalizar /\ [][NextNormalizar]_vars

\* widest numeric cell text written
MaxAncho == 8

\* day numbers around the serial threshold, around six digits, and the last
\* day datetime can hold (31/12/9999)
NumerosDeSerie ==
    { 1, 39999, 40000, 40001, 45878, 99999, 100000, 999999, 1000000, 2958465 }

\* numeric cell texts: a day number, zero padded or not, with or without
\* the '.0' a float cell carries
Seriales ==
    { Decimal(n, ancho) \o sufijo :
        n \in NumerosDeSerie, ancho \in 1..MaxAncho,
        sufijo \in { <<>>, <<".", "0">> } }

\* convertir_fecha_formato is applied to a numeric cell
InitSerial ==
    /\ CarteraIdle
    /\ OperativoIdle
    /\ base_file = BaseAusente
    /\ subida = [c \in Clientes |-> SinSubida]
    /\ respuesta = [c \in Clientes |-> NoRespuesta]
    /\ temp_files = <<>>
    /\ reloj = 0
    /\ archivos2 = [admin |-> SinArchivo, asistencia |-> SinArchivo]
    /\ reporte2 = NoReporte2
    /\ archivos1 = <<>>
    /\ reporte1 = NoReporte1
    /\ entrada \in [funcion : {"convertir_fecha_formato"}, texto : Seriales]
    /\ devuelto = NoSalida
    /\ escritor = SinActualizacion
    /\ calidad = [c \in Clientes |-> NoCalidad]
    /\ LibroIdle

NextSerial == ConvertirFechaFormato

SpecSerial == InitSerial /\ [][NextSerial]_vars

\* Report 3 column names: those Report 3 writes, and names a sheet edited
\* by hand carries
T_FechaIngreso == <<"F","e","c","h","a"," ","I","n","g","r","e","s","o">>
T_fecha        == <<"f","e","c","h","a">>
T_CedulaTilde  == <<"C","é","d","u","l","a">>

ColumnasMuestra ==
    { T_FechaIngreso, T_fecha, T_Fecha, T_CedulaTilde, T_Cedula, T_ID,
      T_Asignacion }

\* columns of one sheet
MaxColumnas == 3

\* rows of one sheet
MaxRegistros == 2

\* the cell a record has under a column of that name
CeldaDe(registro, nombre) ==
    CASE nombre = T_FechaIngreso -> 20240102
      [] normalizar_texto(nombre) = T_fecha -> registro.Fecha
      [] normalizar_texto(nombre) = Minuscula(T_Cedula) -> registro.Cedula
      [] nombre = T_ID -> registro.ID
      [] OTHER -> registro.Asignacion

\* the sheet of the given columns that holds the given records
HojaCon(columns, registros) ==
    [columns |-> columns,
     filas |-> [k \in DOMAIN registros |->
                  [i \in DOMAIN columns |-> CeldaDe(registros[k], columns[i])]]]

\* records of two asesores on two days, assignment at and above the filter
Registros3 ==
    { [Fecha |-> f, Cedula |-> a.Cedula, ID |-> a.ID, Asignacion |-> n] :
        f \in {20250814, 20250815}, a \in {AsesorA, AsesorB}, n \in {5, 50} }

\* sheets of up to MaxColumnas distinct columns, in any order, with one row
HojasMapeo ==
    { HojaCon(c, << [Fecha |-> 20250814, Cedula |-> 11, ID |-> 2020,
                    Asignacion |-> 50] >>) :
        c \in { q \in SeqHasta(ColumnasMuestra, MaxColumnas) :
                  \A i \in DOMAIN q, j \in DOMAIN q : q[i] = q[j] => i = j } }

\* the columns of a Report 3 file as written, and with one column missing
\* or renamed
ListasColumnas ==
    { <<T_FechaIngreso, T_Fecha, T_Cedula, T_ID, T_Asignacion>>,
      <<T_FechaIngreso, T_Fecha, T_CedulaTilde, T_ID, T_Asignacion>>,
      <<T_FechaIngreso, T_Fecha, T_ID, T_Asignacion>>,
      <<T_FechaIngreso, T_Cedula, T_ID, T_Asignacion>>,
      <<T_Cedula, T_ID, T_Asignacion>>,
      <<T_FechaIngreso, T_Fecha, T_Cedula, T_Asignacion>> }

HojasLibro ==
    { HojaCon(c, r) : c \in ListasColumnas,
                     r \in SeqHasta(Registros3, MaxRegistros) }

\* Report 4 is asked for with a Report 3 file of the given sheets
InitLibro(Hojas) ==
    /\ CarteraIdle
    /\ OperativoIdle
    /\ base_file = BaseAusente
    /\ subida = [c \in Clientes |-> SinSubida]
    /\ respuesta = [c \in Clientes |-> NoRespuesta]
    /\ temp_files = <<>>
    /\ reloj = 0
    /\ archivos2 = [admin |-> SinArchivo, asistencia |-> SinArchivo]
    /\ reporte2 = NoReporte2
    /\ archivos1 = <<>>
    /\ reporte1 = NoReporte1
    /\ entrada = [funcion |-> "", texto |-> <<>>]
    /\ devuelto = NoSalida
    /\ escritor = SinActualizacion
    /\ calidad = [c \in Clientes |-> NoCalidad]
    /\ df_r3 \in Hojas
    /\ mapeo_columnas = SinMapeo
    /\ libro = NoLibro
    /\ hoja_team = SinRollup

\* words of display names and of Team / Gerencia cells
T_ANA == <<"A","N","A">>
T_LUZ == <<"L","U","Z">>
T_PAZ == <<"P","A","Z">>
T_SOL == <<"S","O","L">>

\* display names of one to four words
Nombres ==
    { T_ANA, T_ANA \o <<" ">> \o T_LUZ,
      T_ANA \o <<" ">> \o T_LUZ \o <<" ">> \o T_PAZ,
      T_ANA \o <<" ">> \o T_LUZ \o <<" ">> \o T_PAZ \o <<" ">> \o T_SOL }

\* Team / Gerencia cells: blank, none, one, two or three words of the names
Equipos ==
    { <<>>, T_SOL, T_ANA \o <<" ">> \o T_SOL, T_LUZ \o <<" ">> \o T_ANA,
      T_PAZ \o <<" ">> \o T_SOL,
      T_ANA \o <<" ">> \o T_LUZ \o <<" ">> \o T_PAZ }

\* one rollup row and the Operativo rows its formula reads
Rollups ==
    [hoja : {"Team", "Gerente"}, fecha : {20250814}, nombre : Nombres,
     operativo : SeqHasta([Fecha : {20250814, 20250815}, equipo : Equipos],
                          MaxRegistros),
     asesores : {Vacio}]

InitRollup ==
    /\ CarteraIdle
    /\ OperativoIdle
    /\ base_file = BaseAusente
    /\ subida = [c \in Clientes |-> SinSubida]
    /\ respuesta = [c \in Clientes |-> NoRespuesta]
    /\ temp_files = <<>>
    /\ reloj = 0
    /\ archivos2 = [admin |-> SinArchivo, asistencia |-> SinArchivo]
    /\ reporte2 = NoReporte2
    /\ archivos1 = <<>>
    /\ reporte1 = NoReporte1
    /\ entrada = [funcion |-> "", texto |-> <<>>]
    /\ devuelto = NoSalida
    /\ escritor = SinActualizacion
    /\ calidad = [c \in Clientes |-> NoCalidad]
    /\ df_r3 = SinHoja
    /\ mapeo_columnas = SinMapeo
    /\ libro = NoLibro
    /\ hoja_team \in Rollups

NextRollup == CalcularAsesores

SpecRollup == InitRollup /\ [][NextRollup]_vars

InitMapeo == InitLibro(HojasMapeo)

\* records of two asesores on one day of two years and on the next day
RegistrosCodigos ==
    { [Fecha |-> f, Cedula |-> a.Cedula, ID |-> a.ID, Asignacion |-> n] :
        f \in {20240814, 20250814, 20250815}, a \in {AsesorA, AsesorB},
        n \in {5, 50} }

\* Report 3 files with every column, of up to MaxRegistros records
HojasCodigos ==
    { HojaCon(<<T_FechaIngreso, T_Fecha, T_Cedula, T_ID, T_Asignacion>>, r) :
        r \in SeqHasta(RegistrosCodigos, MaxRegistros) }

InitCodigos == InitLibro(HojasCodigos)

InitHojas == InitLibro(HojasLibro)

NextLibro == GenerarLibro

SpecMapeo == InitMapeo /\ [][NextLibro]_vars

SpecLibro == InitHojas /\ [][NextLibro]_vars

SpecCodigos == InitCodigos /\ [][NextLibro]_vars

\* two clients ask for Report 3 while the roster is replaced
InitRoster ==
    /\ CarteraIdle
    /\ OperativoIdle
    /\ archivos2 = [admin |-> SinArchivo, asistencia |-> SinArchivo]
    /\ reporte2 = NoReporte2
    /\ archivos1 = <<>>
    /\ reporte1 = NoReporte1
    /\ entrada = [funcion |-> "", texto |-> <<>>]
    /\ devuelto = NoSalida
    /\ base_file \in { [estado |-> "completo", asesores |-> b] :
                          b \in {<<AsesorA>>, <<AsesorA, AsesorB>>} }
    /\ subida \in [Clientes -> SubidasRoster]
    /\ respuesta = [c \in Clientes |-> NoRespuesta]
    /\ temp_files = <<>>
    /\ reloj = 0
    /\ escritor \in [pc : {"inicio"}, nueva : {<<AsesorB>>, <<AsesorB, AsesorA>>},
                      backup : {BaseAusente}]
    /\ calidad = [c \in Clientes |-> NoCalidad]
    /\ LibroIdle

NextRoster ==
    \/ Respaldar
    \/ Abrir
    \/ Escribir
    \/ Cerrar
    \/ \E c \in Clientes : ProcesarReporteria(c)

SpecRoster == InitRoster /\ [][NextRoster]_vars

\* two clients send their own uploads to Report 3, at any seconds
InitConcurrente ==
    /\ CarteraIdle
    /\ OperativoIdle
    /\ AdminIdle
    /\ base_file \in { [estado |-> "completo", asesores |-> b] :
                          b \in {<<AsesorA>>, <<AsesorA, AsesorB>>} }
    /\ subida \in [Clientes -> SubidasRoster]
    /\ respuesta = [c \in Clientes |-> NoRespuesta]
    /\ temp_files = <<>>
    /\ reloj = 0

NextConcurrente ==
    \/ Tick
    \/ \E c \in Clientes : ProcesarReporteria(c)

SpecConcurrente == InitConcurrente /\ [][NextConcurrente]_vars

\* uploads of Report 3 with a file missing, or none at all
SubidasFaltantes ==
    SubidasRoster
    \cup { SinSubida,
           [fecha |-> Jue14Ago,
            admin |-> [presente |-> TRUE,
                       hoja |-> <<FilaAdmin(2020, HMS(7,29,0))>>],
            llamadas |-> SinArchivo] }

\* the two clients ask for Report 3 and then for Report 4; the roster file
\* may be absent or hold no asesor, and uploads may be missing
InitFaltantes ==
    /\ CarteraIdle
    /\ OperativoIdle
    /\ AdminIdle
    /\ base_file \in { BaseAusente,
                        [estado |-> "completo", asesores |-> <<>>],
                        [estado |-> "completo", asesores |-> <<AsesorA, AsesorB>>] }
    /\ subida \in [Clientes -> SubidasFaltantes]
    /\ respuesta = [c \in Clientes |-> NoRespuesta]
    /\ temp_files = <<>>
    /\ reloj = 0

NextFaltantes ==
    \/ Tick
    \/ \E c \in Clientes : ProcesarReporteria(c)
    \/ \E c \in Clientes : ProcesarReporteCalidad(c)

SpecFaltantes == InitFaltantes /\ [][NextFaltantes]_vars

NextConciliacion == \E c \in Clientes : ProcesarReporteria(c)

SpecConciliacion == InitConciliacion /\ [][NextConciliacion]_vars

SpecCartera == InitCartera /\ [][NextCartera]_vars

SpecHorario == InitHorario /\ [][NextOperativo]_vars

SpecJornada == InitJornada /\ [][NextOperativo]_vars

SpecGestion == InitGestion /\ [][NextOperativo]_vars

SpecVacios == InitVacios /\ [][NextOperativo]_vars

\* words of the management texts that are classified with blanks around
TokensRelleno == { T_GERENCIA, T_BEATRIZ, T_NANCY, T_M0, T_PP, T_m11a }

NextRelleno ==
    \/ \E tok \in TokensRelleno : AppendToken(tok)
    \/ Classify
    \/ SiguienteFila
    \/ \E izq \in Blancos, der \in Blancos : ClassifyRelleno(izq, der)

SpecRelleno == InitCartera /\ [][NextRelleno]_vars

Init == InitCartera

Next == NextCartera

Spec == SpecCartera

(***************************************************************************)
(* Properties of the portfolio classifier (checked under SpecCartera)      *)
(***************************************************************************)
\* case-insensitive containment, the reading of "substring" in the cascade
CI(text, sub) == Contains(Upper(text), Upper(sub))

\* the condition of rule i as the specification states it (hyphen optional),
\* on the upper-cased management text u
CondRegla(i, u) ==
    CASE i = 1 -> Contains(u, T_M1_2) \/ Contains(u, T_M12)
      [] i = 2 -> Contains(u, T_M1_1B) \/ Contains(u, T_M11B)
      [] i = 3 -> Contains(u, T_M0_1) /\ Contains(u, T_PP)
      [] i = 4 -> /\ Contains(u, T_M1_1) /\ Contains(u, T_A)
                  /\ Contains(u, T_BEATRIZ) /\ Contains(u, T_NANCY)
      [] i = 5 -> Contains(u, T_M1_1A) \/ Contains(u, T_M11A)
      [] i = 6 -> Contains(u, T_M0) /\ Contains(u, T_PP)
      [] i = 7 -> Contains(u, T_M0) /\ Contains(u, T_VP)
      [] OTHER -> TRUE

\* which rule conditions hold for the management text g
Condiciones(g) == LET u == Upper(g) IN [i \in 1..8 |-> CondRegla(i, u)]

\* the lowest-numbered rule whose condition holds (8 is the fall-through)
PrimeraRegla(g) ==
    LET conds == Condiciones(g) IN
    CHOOSE i \in 1..8 : conds[i] /\ \A j \in 1..(i - 1) : ~conds[j]

\* the range text contains one of the M1-1A range aliases
TieneAlias(r) == \E a \in RANGOS_FRS_M11A : CI(r, a)

\* the label rule i assigns
EtiquetaRegla(i, g, r) ==
    CASE i = 1 -> T_M1_2
      [] i = 2 -> T_M1_1B
      [] i = 3 -> L_M0_1_PP
      [] i = 4 -> L_M1_1A_PN
      [] i = 5 -> validar_frs_con_rango(detectar_aplicativo(g), Strip(Upper(r)), T_M1_1A)
      [] i = 6 -> validar_frs_con_rango(detectar_aplicativo(g), Strip(Upper(r)), L_M0_PP)
      [] i = 7 -> validar_frs_con_rango(detectar_aplicativo(g), Strip(Upper(r)), L_M0_VP)
      [] OTHER -> Strip(g)

G_M1_1A_FRS == T_GERENCIA \o <<" ">> \o T_M1_1A \o <<" ">> \o T_FRS
G_M0_PP     == T_GERENCIA \o <<" ">> \o T_M0 \o <<" ">> \o T_PP
R_RM1_1A    == <<"R","M","1","-","1","A">>

\* C2: when rule 5 is the first matching rule the label is M1-1A-FRS for
\* tag FRS with a range alias, M0-FRS for tag FRS without alias, M1-1A-PN or
\* M1-1A-BT for tag PN or BT, and M1-1A without tag; in particular
\* ('GERENCIA M1-1A FRS', 'RM1-1A') gives 'M1-1A-FRS'.
Thm_C2_Rule5Refinement ==
    /\ (pcCartera = "done" /\ PrimeraRegla(gerencia_text) = 5) =>
          LET tag == detectar_aplicativo(gerencia_text) IN
          /\ (tag = T_FRS /\ TieneAlias(rango_text))  => cartera = L_M1_1A_FRS
          /\ (tag = T_FRS /\ ~TieneAlias(rango_text)) => cartera = L_M0_FRS
          /\ tag = T_PN => cartera = L_M1_1A_PN
          /\ tag = T_BT => cartera = L_M1_1A_BT
          /\ tag = NoAplicativo => cartera = T_M1_1A
    /\ (pcCartera = "done" /\ gerencia_text = G_M1_1A_FRS
                           /\ rango_text = R_RM1_1A) => cartera = L_M1_1A_FRS

\* the scenario of the specification, and an FRS text without range alias
Wit_C2_Scenario ==
    /\ pcCartera = "done"
    /\ gerencia_text = G_M1_1A_FRS
    /\ rango_text = R_RM1_1A
    /\ PrimeraRegla(gerencia_text) = 5
    /\ cartera = L_M1_1A_FRS

\* C3 as stated: under rule 6 or 7 a PN or BT tag is appended to the base
\* label (M0-PP-PN, M0-VP-BT, ...) and without tag the label is the base.
Claim_C3_AppendedToBase ==
    (pcCartera = "done" /\ PrimeraRegla(gerencia_text) \in {6, 7}) =>
        LET tag  == detectar_aplicativo(gerencia_text)
            base == IF PrimeraRegla(gerencia_text) = 6 THEN L_M0_PP ELSE L_M0_VP
        IN  /\ tag \in {T_PN, T_BT} => cartera = base \o T_Dash \o tag
            /\ tag = NoAplicativo => cartera = base

\* C3 (amended): under rule 6 or 7 a PN or BT tag replaces the PP / VP part,
\* giving M0-PN or M0-BT; without tag the label is the base label M0-PP or
\* M0-VP ('GERENCIA M0 PP' gives 'M0-PP').
Thm_C3_M0Refinement ==
    /\ (pcCartera = "done" /\ PrimeraRegla(gerencia_text) \in {6, 7}) =>
          LET tag  == detectar_aplicativo(gerencia_text)
              base == IF PrimeraRegla(gerencia_text) = 6 THEN L_M0_PP ELSE L_M0_VP
          IN  /\ tag = T_PN => cartera = L_M0_PN
              /\ tag = T_BT => cartera = L_M0_BT
              /\ tag = NoAplicativo => cartera = base
    /\ (pcCartera = "done" /\ gerencia_text = G_M0_PP) => cartera = L_M0_PP

\* rule 6 with a PN tag
Wit_C3_M0WithPN ==
    /\ pcCartera = "done"
    /\ PrimeraRegla(gerencia_text) = 6
    /\ detectar_aplicativo(gerencia_text) = T_PN
    /\ cartera = L_M0_PN

(***************************************************************************)
(* Properties of the Operativo indicators                                  *)
(***************************************************************************)
\* the Saturdays of August 2025
EsSabado(f) == f.y = 2025 /\ f.m = 8 /\ f.d \in {2, 9, 16, 23, 30}

\* C4: Ind Logueo carries 0.15 exactly when the schedule type is Pago and
\* the login time is at or before 07:30:00, or the schedule type is Normal
\* and the login time is at or before 08:00:00, and is 0 otherwise; on a
\* Pago record 07:29:00 is satisfied and 07:31:00 is not.
Thm_C4_IndLogueo ==
    etapa = "calidad" =>
        LET t == operativo.Logueo
            cumple ==
                /\ t # Vacio
                /\ \/ (operativo.TipoJornada = "Pago"   /\ t <= HMS(7, 30, 0))
                   \/ (operativo.TipoJornada = "Normal" /\ t <= HMS(8, 0, 0))
        IN  /\ operativo.IndLogueo = (IF cumple THEN 15 ELSE 0)
            /\ (operativo.TipoJornada = "Pago" /\ t = HMS(7, 29, 0))
                  => operativo.IndLogueo = 15
            /\ (operativo.TipoJornada = "Pago" /\ t = HMS(7, 31, 0))
                  => operativo.IndLogueo = 0

\* a Pago record logged in at 07:31:00, after the Pago limit and before the
\* Normal one
Wit_C4_PagoLate ==
    /\ etapa = "calidad"
    /\ ~operativo.placeholder
    /\ operativo.TipoJornada = "Pago"
    /\ operativo.Logueo = HMS(7, 31, 0)
    /\ operativo.IndLogueo = 0

\* C5: Ind Ultimo is satisfied exactly when the day is a Saturday and the
\* last-contact time is at or after 12:20 PM (whatever the schedule type),
\* or the day is not a Saturday and the schedule type is Pago and the time
\* is at or after 06:50 PM, or the day is not a Saturday and the schedule
\* type is Normal and the time is at or after 05:20 PM.
Thm_C5_IndUltimo ==
    etapa = "calidad" =>
        LET t == operativo.UltimoToque
            f == operativo.Fecha
            cumple ==
                /\ f # NoFecha
                /\ t # Vacio
                /\ \/ (EsSabado(f) /\ t >= HMS(12, 20, 0))
                   \/ (~EsSabado(f) /\ operativo.TipoJornada = "Pago"
                                    /\ t >= HMS(18, 50, 0))
                   \/ (~EsSabado(f) /\ operativo.TipoJornada = "Normal"
                                    /\ t >= HMS(17, 20, 0))
        IN  operativo.IndUltimo = (IF cumple THEN 15 ELSE 0)

\* a Saturday of schedule type Pago whose last contact at 12:20 PM satisfies
\* the indicator although it is before 06:50 PM
Wit_C5_SaturdayPago ==
    /\ etapa = "calidad"
    /\ ~operativo.placeholder
    /\ EsSabado(operativo.Fecha)
    /\ operativo.TipoJornada = "Pago"
    /\ operativo.UltimoToque = HMS(12, 20, 0)
    /\ operativo.IndUltimo = 15

\* round(x * 0.9): the nearest integer, halves up
Redondeo09(x) == CHOOSE n \in 0..x : 10 * n - 5 <= 9 * x /\ 9 * x < 10 * n + 5

\* C6: Ind Ges Medio is satisfied exactly when the assignment count is below
\* 45 and the managed-by-11am count is at least round(assignment x 0.9), or
\* the assignment count is 45 or more and the managed-by-11am count is at
\* least 45.
Thm_C6_IndGesMedio ==
    etapa = "calidad" =>
        LET a == operativo.Asignacion
            g == operativo.Gestionados
            cumple ==
                /\ a # Vacio
                /\ g # Vacio
                /\ \/ (a < 45 /\ g >= Redondeo09(a))
                   \/ (a >= 45 /\ g >= 45)
        IN  operativo.IndGesMedio = (IF cumple THEN 15 ELSE 0)

\* assignment 15: 90% is 13.5, so 13 managed accounts are not enough
Wit_C6_HalfRoundsUp ==
    /\ etapa = "calidad"
    /\ operativo.Asignacion = 15
    /\ operativo.Gestionados = 13
    /\ operativo.IndGesMedio = 0

\* C7: Indicador Toques is satisfied exactly when total touches is at least
\* 120 for a record whose portfolio label contains M0 (as SEARCH finds it),
\* and at least 160 for a record whose label does not contain M0.
Thm_C7_IndicadorToques ==
    etapa = "calidad" =>
        LET m == operativo.Mora
            t == operativo.TotalToques
            cumple ==
                /\ m # <<>>
                /\ t # Vacio
                /\ \/ (CI(m, T_M0) /\ t >= 120)
                   \/ (~CI(m, T_M0) /\ t >= 160)
        IN  operativo.IndicadorToques = (IF cumple THEN 20 ELSE 0)

\* an M0 record with 120 touches is satisfied
Wit_C7_M0At120 ==
    /\ etapa = "calidad"
    /\ operativo.Mora = L_M0_PP
    /\ operativo.TotalToques = 120
    /\ operativo.IndicadorToques = 20

\* C8: Ind Llamadas of a reconciled record is satisfied exactly when the sum
\* of the asesor's calls over both telephony sources (Isabel/Microsip report
\* plus VOIP report) is at least 150.
Claim_C8_BothTelephonySources ==
    (etapa = "calidad" /\ ~operativo.placeholder) =>
        LET isabel == IF fuentes.llamadas = Vacio THEN 0 ELSE fuentes.llamadas
            total  == isabel + fuentes.voip
        IN  (operativo.IndLlamadas # 0) <=> (total >= 150)

\* C9: Total Operativo equals the sum of the six indicators; Ind Pausa always
\* carries its fixed reward, so the total is never below 0.15 nor above 1.00.
Thm_C9_TotalOperativo ==
    etapa = "calidad" =>
        /\ operativo.TotalOperativo =
              operativo.IndLogueo + operativo.IndUltimo + operativo.IndGesMedio
                + operativo.IndLlamadas + operativo.IndicadorToques
                + operativo.IndPausa
        /\ operativo.IndPausa = 15
        /\ operativo.TotalOperativo >= 15
        /\ operativo.TotalOperativo <= 100

\* a record that satisfies every indicator reaches 1.00
Wit_C9_AllSatisfied ==
    /\ etapa = "calidad"
    /\ ~operativo.placeholder
    /\ operativo.IndLogueo = 15 /\ operativo.IndUltimo = 15
    /\ operativo.IndGesMedio = 15 /\ operativo.IndLlamadas = 20
    /\ operativo.IndicadorToques = 20
    /\ operativo.TotalOperativo = 100

Cero(x) == IF x = 0 THEN 1 ELSE 0

\* C10: Total Infracciones equals the number of indicators among login, last
\* contact, mid-day management, calls, touches and pause whose value is
\* zero; the pause indicator is never zero, so the count is between 0 and 5.
Thm_C10_TotalInfracciones ==
    etapa = "calidad" =>
        /\ operativo.TotalInfracciones =
              Cero(operativo.IndLogueo) + Cero(operativo.IndUltimo)
                + Cero(operativo.IndGesMedio) + Cero(operativo.IndLlamadas)
                + Cero(operativo.IndicadorToques) + Cero(operativo.IndPausa)
        /\ operativo.IndPausa # 0
        /\ operativo.TotalInfracciones >= 0
        /\ operativo.TotalInfracciones <= 5

\* a record whose only zero indicator is the login one, the two 0.20
\* indicators being satisfied
Wit_C10_OneInfraction ==
    /\ etapa = "calidad"
    /\ ~operativo.placeholder
    /\ operativo.IndLogueo = 0
    /\ operativo.IndLlamadas = 20 /\ operativo.IndicadorToques = 20
    /\ operativo.TotalInfracciones = 1

(***************************************************************************)
(* Properties of the schedule type (checked under SpecJornada)             *)
(***************************************************************************)
\* the payday days of the month
DiasDePago == {1, 2, 15, 16, 17, 30, 31}

\* C11: the schedule type of a record is "Pago" exactly when the day of the
\* month of its calendar day is one of 1, 2, 15, 16, 17, 30, 31 and "Normal"
\* otherwise (15 August 2025 is Pago, 14 August 2025 is Normal), in the
\* Operativo sheet and in every row of the Asistencia Lideres sheet alike.
Thm_C11_TipoJornada ==
    etapa = "calidad" =>
        /\ ~operativo.placeholder =>
              /\ operativo.TipoJornada =
                    (IF operativo.Fecha.d \in DiasDePago
                     THEN "Pago" ELSE "Normal")
              /\ operativo.Fecha = Vie15Ago => operativo.TipoJornada = "Pago"
              /\ operativo.Fecha = Jue14Ago => operativo.TipoJornada = "Normal"
        /\ \A i \in 1..Len(asistencia) :
              ~asistencia[i].placeholder =>
                  asistencia[i].TipoJornada =
                      (IF asistencia[i].Fecha.d \in DiasDePago
                       THEN "Pago" ELSE "Normal")

\* an asesor on 15 August (Pago) next to a leader on 17 August (Pago)
Wit_C11_BothSheetsPago ==
    /\ etapa = "calidad"
    /\ ~operativo.placeholder
    /\ operativo.Fecha = Vie15Ago
    /\ operativo.TipoJornada = "Pago"
    /\ Len(asistencia) = 1
    /\ ~asistencia[1].placeholder
    /\ asistencia[1].Fecha.d = 17
    /\ asistencia[1].TipoJornada = "Pago"

(***************************************************************************)
(* Properties of the Report 3 reconciliation (checked under                *)
(* SpecConciliacion)                                                       *)
(***************************************************************************)
\* the day sheet client c received
HojaDe(c) == temp_files[respuesta[c].temp_file].hoja

\* the IDs of the records of a sheet
IDsDe(hoja) == { hoja[i].ID : i \in 1..Len(hoja) }

\* the login time the admin sheet holds for an ID: that of the last row of
\* the ID, blank when the ID is absent
LogueoAdmin(admin, id) ==
    LET filas == { i \in 1..Len(admin) : admin[i].ID = id }
    IN  IF filas = {} THEN Vacio
        ELSE admin[CHOOSE i \in filas : \A j \in filas : j <= i].Logueo

\* C12 as stated: every person present in the roster or in the admin sheet
\* has a record in the reconciled day sheet.
Claim_C12_EveryKeyYieldsRecord ==
    \A c \in Clientes :
        respuesta[c].estado = "ok" =>
            LET admin == subida[c].admin.hoja
                base  == respuesta[c].base
            IN  ({ base[i].ID : i \in 1..Len(base) }
                    \cup { admin[i].ID : i \in 1..Len(admin) })
                        \subseteq IDsDe(HojaDe(c))

\* C12 (amended): the reconciled day sheet holds a record for each person
\* of the roster for whom the admin sheet holds a login time, also
\* when the person's extension is absent from the telephony sheet, and then
\* the call counts of the record are 0; persons outside the roster or without
\* login in the admin sheet have no record.
Thm_C12_RosterWithLogin ==
    \A c \in Clientes :
        respuesta[c].estado = "ok" =>
            LET admin    == subida[c].admin.hoja
                llamadas == subida[c].llamadas.hoja
                base     == respuesta[c].base
                hoja     == HojaDe(c)
                exts     == { llamadas[i].EXT : i \in 1..Len(llamadas) }
            IN  /\ IDsDe(hoja) =
                      { base[i].ID : i \in { j \in 1..Len(base) :
                            LogueoAdmin(admin, base[j].ID) # Vacio } }
                /\ \A i \in 1..Len(base) :
                      base[i].EXT \notin exts =>
                          \A k \in 1..Len(hoja) :
                              hoja[k].ID = base[i].ID =>
                                  /\ hoja[k].TotalLlamadas = 0
                                  /\ hoja[k].LlamadasMicrosip = 0

\* a roster of two, an admin sheet with a login for the first and a row for
\* an ID outside the roster, and a telephony sheet without the first one's
\* extension: one record, with call count 0
Wit_C12_AdminOnlyNoCalls ==
    /\ respuesta[1].estado = "ok"
    /\ respuesta[1].base = <<AsesorA, AsesorB>>
    /\ subida[1].admin.hoja =
          <<FilaAdmin(2020, HMS(7,31,0)), FilaAdmin(2022, HMS(7,31,0))>>
    /\ subida[1].llamadas.hoja = <<[EXT |-> 103, Total |-> 150]>>
    /\ Len(HojaDe(1)) = 1
    /\ HojaDe(1)[1].ID = 2020
    /\ HojaDe(1)[1].TotalLlamadas = 0


(***************************************************************************)
(* C13: several events of one key                                          *)
(***************************************************************************)
\* the first connections the attendance file holds for an ID
ConexionesDe(id) ==
    { archivos2.asistencia.hoja[i].conexion :
        i \in { k \in 1..Len(archivos2.asistencia.hoja) :
                  archivos2.asistencia.hoja[k].ID = id } }

\* the last contacts the admin file holds for an ID
UltimosDe(id) ==
    { archivos2.admin.hoja[i].ultimo :
        i \in { k \in 1..Len(archivos2.admin.hoja) :
                  archivos2.admin.hoja[k].ID = id } }

\* C13: when the files hold several events of a collector on a day, the row of
\* the day sheet carries the earliest login and the latest last contact
Claim_C13_EarliestLoginLatestContact ==
    reporte2.estado = "ok" =>
        \A i \in 1..Len(reporte2.hoja) :
            LET r == reporte2.hoja[i]
            IN  /\ ConexionesDe(r.ID) # {} =>
                     \A t \in ConexionesDe(r.ID) : TIMEVALUE(r.Logueo) <= t
                /\ \A t \in UltimosDe(r.ID) : t <= TIMEVALUE(r.ULTIMO)

(***************************************************************************)
(* C14: the order of the files and of the rows                             *)
(***************************************************************************)
\* a sequence with its elements i and j exchanged
Intercambiar(seq, i, j) ==
    [k \in 1..Len(seq) |-> IF k = i THEN seq[j]
                           ELSE IF k = j THEN seq[i] ELSE seq[k]]

\* no key of the column occurs in two rows of the sheet
ClavesUnicas(data, key_column) ==
    \A i, j \in 1..Len(data) :
        data[i][key_column] = data[j][key_column] => i = j

\* the call report is the same whichever two files, or whichever two rows,
\* are exchanged
LlamadasSinOrden ==
    reporte1.estado = "ok" =>
        /\ \A i, j \in 1..Len(archivos1) :
              procesar_llamadas_isabel(Intercambiar(archivos1, i, j)).informe
                  = reporte1.informe
        /\ LET df == concat(archivos1)
           IN  \A i, j \in 1..Len(df) :
                   procesar_llamadas_isabel(<<Intercambiar(df, i, j)>>).informe
                       = reporte1.informe

\* the reconciled sheet of client c is the same whichever two rows of the
\* admin sheet and whichever two rows of the call sheet are exchanged
MapasSinOrden(c) ==
    LET up == subida[c]
    IN  \A i, j \in 1..Len(up.admin.hoja) :
            \A k, l \in 1..Len(up.llamadas.hoja) :
                hoja_reporte3(respuesta[c].base,
                              Intercambiar(up.admin.hoja, i, j),
                              Intercambiar(up.llamadas.hoja, k, l),
                              up.fecha) = HojaDe(c)

Thm_C15_BlankFieldIndicatorZero ==
    operativo.presente =>
        /\ (operativo.Logueo = Vacio \/ operativo.TipoJornada = "")
              => operativo.IndLogueo = 0
        /\ (operativo.Fecha = NoFecha \/ operativo.UltimoToque = Vacio
                                      \/ operativo.TipoJornada = "")
              => operativo.IndUltimo = 0
        /\ (operativo.Asignacion = Vacio \/ operativo.Gestionados = Vacio)
              => operativo.IndGesMedio = 0
        /\ (operativo.Mora = <<>> \/ operativo.TotalToques = Vacio)
              => operativo.IndicadorToques = 0
        /\ operativo.TotalLlamadas = Vacio => operativo.IndLlamadas = 0

\* a data row whose Clientes gestionados is blank: Ind Ges Medio is 0 while
\* the login, whose fields are present, is rewarded
Wit_C15_BlankGestionados ==
    /\ operativo.presente
    /\ ~operativo.placeholder
    /\ operativo.Gestionados = Vacio
    /\ operativo.Asignacion = 44
    /\ operativo.IndGesMedio = 0
    /\ operativo.IndLogueo = VALOR_INDICADOR_CUMPLE
    /\ operativo.Fecha = NoFecha
    /\ operativo.UltimoToque # Vacio
    /\ operativo.IndUltimo = 0

(***************************************************************************)
(* C16: Ausentismo rows without biometric match                            *)
(***************************************************************************)
\* C16: after the synchronisation with a biometric file, the Ausentismo row
\* of an asesor whose Codigo Aus matches no biometric code has the missing
\* marker in Ingreso and Salida, and no Novedad Ingreso computed from a time.
Claim_C16_NoMatchCarriesMissingMarker ==
    ( /\ ausentismo.presente
      /\ ausentismo.sincronizada
      /\ ~ausentismo.placeholder
      /\ ausentismo.CodigoAus # Vacio
      /\ ~ausentismo.coincidencia )
    => /\ ausentismo.Ingreso = NoHora
       /\ ausentismo.Salida = NoHora
       /\ ausentismo.NovedadIngreso = ""

(***************************************************************************)
(* C17: texts that are not dates or times                                  *)
(***************************************************************************)
\* the text is read by one of the formats the normaliser accepts
Reconocida(funcion, texto) ==
    LET s == Strip(texto)
        pat == BuscarPatron(Minuscula(s))
        corta == QuitarPuntoCero(IF count(s, " ") > 0
                                 THEN split(s, " ")[1] ELSE s)
    IN  IF funcion = "limpiar_fecha"
        THEN YaEsDDMMYYYY(s) \/ \E k \in 1..Len(formatos) : ProbarFormato(s, k).ok
        ELSE IF funcion = "convertir_fecha_formato"
        THEN \/ pat.ok /\ \E k \in 1..12 : meses[k] = pat.mes
             \/ ~pat.ok /\ EmpiezaISO(s) /\ strptime_fecha(s, "-", "Ymd").ok
             \/ ~pat.ok /\ EmpiezaDMY(s) /\ strptime_fecha(s, "-", "dmY").ok
             \/ ~pat.ok /\ isdigit(corta) /\ Len(corta) > 6
                        /\ int(corta) > EXCEL_EPOCH_THRESHOLD
        ELSE \/ Contains(Minuscula(s), Minuscula(T_AM))
             \/ Contains(Minuscula(s), Minuscula(T_PM))
             \/ strptime_hora(s, 3).ok
             \/ strptime_hora(s, 2).ok

\* C17: a text that none of the accepted formats reads comes back as the
\* empty marker from limpiar_fecha, convertir_fecha_formato and
\* convertir_hora_formato.
Claim_C17_UnparseableYieldsEmpty ==
    ( devuelto # NoSalida /\ ~Reconocida(entrada.funcion, entrada.texto) )
        => devuelto.valor = <<>>

(***************************************************************************)
(* C18: reading the roster while it is replaced                            *)
(***************************************************************************)
\* C18: the roster a Report 3 invocation has read is the complete roster of
\* before the update or the complete new roster, wherever the read falls
\* among the steps of the update.
Claim_C18_ReadSeesWholeRoster ==
    \A c \in Clientes :
        respuesta[c] # NoRespuesta =>
            \/ respuesta[c].base = escritor.nueva
            \/ respuesta[c].base = escritor.backup.asesores
               /\ escritor.backup.estado = "completo"
            \/ escritor.pc = "inicio" /\ respuesta[c].base = base_file.asesores

(***************************************************************************)
(* C19: two invocations and their temp files                               *)
(***************************************************************************)
\* C19: the workbook a client retrieves under the temp-file name its own
\* invocation returned is the workbook generated from its own uploads.
Claim_C19_OwnWorkbookRetrieved ==
    \A c \in Clientes :
        respuesta[c].estado = "ok" =>
            descargar_reporte3(c) =
                [estado |-> "ok",
                 hoja |-> hoja_reporte3(respuesta[c].base,
                                        subida[c].admin.hoja,
                                        subida[c].llamadas.hoja,
                                        subida[c].fecha)]

(***************************************************************************)
(* C20: a required dataset is missing                                      *)
(***************************************************************************)
\* C20: a step in which an invocation of Report 3 or of Report 4 ends with
\* an error (an upload or the Report 3 file missing, the roster absent or
\* empty) writes no file in temp_files/ and names no temp file in its
\* response.
Thm_C20_ErrorWritesNothing ==
    [][ \A c \in Clientes :
          /\ ( respuesta[c] = NoRespuesta /\ respuesta'[c].estado = "error" )
                => ( temp_files' = temp_files
                     /\ respuesta'[c].temp_file = NoNombre )
          /\ ( calidad[c] = NoCalidad /\ calidad'[c].estado = "error" )
                => ( temp_files' = temp_files
                     /\ calidad'[c].filename = NoNombre ) ]_vars

\* client 1 sent no call file and got errors from both reports, while the
\* run of client 2 wrote its files: only those are in temp_files/
Wit_C20_ErrorBesideSuccess ==
    /\ ~subida[1].llamadas.presente
    /\ subida[1].admin.presente
    /\ respuesta[1].estado = "error"
    /\ calidad[1].estado = "error"
    /\ respuesta[2].estado = "ok"
    /\ calidad[2].estado = "ok"
    /\ DOMAIN temp_files = { respuesta[2].temp_file,
                             NombreMetadata(respuesta[2].temp_file),
                             calidad[2].filename }

(***************************************************************************)
(* C22, C23: fall-through and overlap of the classifier's rules            *)
(***************************************************************************)
\* the rules whose if-condition holds for the management text g
ReglasQueValen(g) ==
    LET gu == Strip(Upper(g))
        gl == Strip(Lower(g))
    IN  { i \in 1..7 :
            CASE i = 1 -> Regla1(gu, gl)
              [] i = 2 -> Regla2(gu, gl)
              [] i = 3 -> Regla3(gu, gl)
              [] i = 4 -> Regla4(gu)
              [] i = 5 -> Regla5(gu, gl)
              [] i = 6 -> Regla6(gu, gl, g)
              [] i = 7 -> Regla7(gu, gl, g) }

\* the lowest-numbered rule of a non-empty set of rules
Menor(S) == CHOOSE i \in S : \A j \in S : i <= j

Claim_C23_RulesMutuallyExclusive ==
    pcCartera = "done" => Cardinality(ReglasQueValen(gerencia_text)) <= 1

\* C23 (amended): the rule conditions overlap, and when several hold the
\* label returned is the one of the lowest-numbered of them, never the
\* label of a later rule.
Thm_C23_OverlapResolvedByOrder ==
    (pcCartera = "done" /\ Cardinality(ReglasQueValen(gerencia_text)) >= 2)
        => cartera = EtiquetaRegla(Menor(ReglasQueValen(gerencia_text)),
                                   gerencia_text, rango_text)

\* 'M0 PP VP' satisfies rules 6 and 7 only and is labelled M0-PP
Wit_C23_Rules6And7 ==
    /\ pcCartera = "done"
    /\ ReglasQueValen(gerencia_text) = {6, 7}
    /\ cartera = L_M0_PP

(***************************************************************************)
(* C27: spreadsheet day numbers                                            *)
(***************************************************************************)
\* C27: convertir_fecha_formato turns every all-digit value greater than
\* 40000 into the day that many days after 30/12/1899, written DD/MM/YYYY,
\* and returns every all-digit value of at most 40000 as it is.
Claim_C27_SerialAboveThresholdConverted ==
    ( devuelto # NoSalida /\ entrada.funcion = "convertir_fecha_formato"
      /\ isdigit(entrada.texto) )
        => devuelto.valor =
              IF int(entrada.texto) > EXCEL_EPOCH_THRESHOLD
              THEN strftime_d_m_Y(FechaDeSerial(int(entrada.texto)))
              ELSE entrada.texto

(***************************************************************************)
(* C24: precedence of the schema mapping rules                             *)
(***************************************************************************)
\* precedence of a mapping rule: 1 is the highest
RangoDeRegla(regla) ==
    CASE regla = "exacto" -> 1 [] regla = "normalizado" -> 2
      [] regla = "similitud" -> 3 [] OTHER -> 4

\* C24: an Operativo column is mapped to a Report 3 column that matches it
\* by the highest-precedence rule (exact, then without diacritics, then 80%
\* of the words) that any column of the sheet passes, whatever the order of
\* the columns in the sheet.
Claim_C24_PrecedenceWhateverOrder ==
    libro # NoLibro =>
        \A k \in DOMAIN obtener_columnas_operativo :
            LET op == obtener_columnas_operativo[k] IN
            op \in DOMAIN mapeo_columnas =>
                \A i \in DOMAIN df_r3.columns :
                    RangoDeRegla(ReglaDeMapeo(op, mapeo_columnas[op]))
                        <= RangoDeRegla(ReglaDeMapeo(op, df_r3.columns[i]))

(***************************************************************************)
(* C21: a required column of the Report 3 sheet is missing                 *)
(***************************************************************************)
\* the required Operativo columns that no column of the sheet is mapped to
RequeridosSinMapear(columns) ==
    { op \in {T_Fecha, T_Cedula, T_ID} :
        op \notin DOMAIN mapear_columnas_operativo(columns) }

\* C21: when Fecha, Cedula or ID cannot be mapped, Report 4 still answers
\* with a workbook, and the workbook is the one of a sheet without data
\* (one placeholder row per sheet).
Claim_C21_UnmappedFieldFallsBack ==
    ( libro # NoLibro /\ RequeridosSinMapear(df_r3.columns) # {} )
        => libro = generar_libro([columns |-> df_r3.columns, filas |-> <<>>],
                                 <<>>)

PalabrasEnOrden(texto) == SelectSeq(split(texto, " "), LAMBDA w : w # <<>>)

\* the words of the name, of its first three, that the cell contains
PalabrasContenidas(nombre, equipo) ==
    LET ws == PalabrasEnOrden(nombre)
    IN  { n \in 1..(IF Len(ws) < 3 THEN Len(ws) ELSE 3) : SEARCH(ws[n], equipo) }

\* C25: the count of a rollup row for day D and name N is the number of
\* Operativo rows of day D whose Team (Gerencia) cell contains at least two
\* of the first three words of N, for names of any number of words.
Claim_C25_RollupTwoOfThree ==
    hoja_team.asesores # Vacio =>
        hoja_team.asesores =
            Cardinality({ k \in DOMAIN hoja_team.operativo :
                /\ hoja_team.operativo[k].Fecha = hoja_team.fecha
                /\ Cardinality(PalabrasContenidas(hoja_team.nombre,
                                   hoja_team.operativo[k].equipo)) >= 2 })

(***************************************************************************)
(* C28: every label of rules 1 to 7 has a goal                             *)
(***************************************************************************)
\* C28: a label returned through one of rules 1 to 7, once Report 3 has
\* replaced its blanks by dashes, is 'M1-2' (goal calculated from the
\* assigned capital) or a key of the Payday and of the Normal goal table.
Thm_C28_LabelHasGoal ==
    (pcCartera = "done" /\ ReglasQueValen(gerencia_text) # {}) =>
        \A tipo_jornada \in {"Pago", "Normal"} :
            formula_meta(normalizar_valor_mora(cartera), tipo_jornada) # "#N/A"

\* a text of rule 3 is labelled 'M0-1 PP', which only the dash makes a key
Wit_C28_BlankLabelNormalised ==
    /\ pcCartera = "done"
    /\ 3 \in ReglasQueValen(gerencia_text)
    /\ cartera = L_M0_1_PP
    /\ formula_meta(normalizar_valor_mora(cartera), "Pago") = "tabla"
    /\ formula_meta(normalizar_valor_mora(cartera), "Normal") = "tabla"

(***************************************************************************)
(* C29: lookup codes and the reconciliation key                            *)
(***************************************************************************)
\* C29: two rows of the workbook that carry the same CODIGO (identifier
\* followed by DDMM) are rows of the same identifier and the same calendar
\* day, and so are two rows that carry the same Codigo Aus.
Claim_C29_CodeIdentifiesKey ==
    libro.estado = "ok" =>
        \A k1 \in DOMAIN libro.operativo, k2 \in DOMAIN libro.operativo :
            /\ (/\ libro.operativo[k1].CODIGO # Vacio
                /\ libro.operativo[k1].CODIGO = libro.operativo[k2].CODIGO)
                  => /\ libro.operativo[k1].ID = libro.operativo[k2].ID
                     /\ libro.operativo[k1].Fecha = libro.operativo[k2].Fecha
            /\ (/\ libro.ausentismo[k1].codigo_aus # Vacio
                /\ libro.ausentismo[k1].codigo_aus
                      = libro.ausentismo[k2].codigo_aus)
                  => /\ libro.operativo[k1].Cedula = libro.operativo[k2].Cedula
                     /\ libro.operativo[k1].Fecha = libro.operativo[k2].Fecha

(***************************************************************************)
(* C30: one row per ID in a day sheet of Report 2                          *)
(***************************************************************************)
\* C30: in the day sheet of Report 2 no ID has two rows, and the row of an
\* ID carries the highest RECUPERADO of the admin rows of that ID.
Thm_C30_OneRowPerIdMaxRecuperado ==
    reporte2.estado = "ok" =>
        LET hoja == reporte2.hoja
            admin == archivos2.admin.hoja
        IN  /\ \A i \in DOMAIN hoja, j \in DOMAIN hoja :
                  hoja[i].ID = hoja[j].ID => i = j
            /\ \A i \in DOMAIN hoja :
                  /\ \E k \in DOMAIN admin :
                        /\ admin[k].ID = hoja[i].ID
                        /\ admin[k].RECUPERADO = hoja[i].RECUPERADO
                  /\ \A k \in DOMAIN admin :
                        admin[k].ID = hoja[i].ID
                            => admin[k].RECUPERADO <= hoja[i].RECUPERADO

\* two admin rows of one collector, the lower amount first: one row is left
\* and it carries the higher amount
Wit_C30_DuplicateIdDropped ==
    /\ reporte2.estado = "ok"
    /\ Len(archivos2.admin.hoja) = 2
    /\ archivos2.admin.hoja[1].ID = 2020 /\ archivos2.admin.hoja[2].ID = 2020
    /\ archivos2.admin.hoja[1].RECUPERADO = 100
    /\ archivos2.admin.hoja[2].RECUPERADO = 500
    /\ Len(reporte2.hoja) = 1
    /\ reporte2.hoja[1].RECUPERADO = 500
====
